---- MODULE Spec2Model ----
(***************************************************************************)
(* Model of the indexing-extent algebra (mpi_array/indexing.py), the block *)
(* partition of a globale extent over locales (mpi_array/distribution.py), *)
(* the halo-update planner (mpi_array/decomposition.py) and the build of a *)
(* distribution by all the ranks of a communicator through its collectives *)
(* (LocaleComms, CartLocaleComms, create_distribution).  Further sections  *)
(* model the cloned and single-locale distributions, the equality of       *)
(* locale extents, the split of a destination extent into leftovers and    *)
(* updates, the shape and halo setters of a Decomposition and the          *)
(* conversion of an extent between the globale and the locale frame.       *)
(*                                                                         *)
(* Axes are numbered 1..ndim (python: 0..ndim-1); ranks and cartesian      *)
(* coordinates keep their python values 0..n-1.  A numpy vector is a       *)
(* sequence, a halo matrix is a sequence of <<lo, hi>> pairs, and          *)
(* halo[a, dir] of the source is halo[a][dir + 1] here.                    *)
(***************************************************************************)
EXTENDS Integers, Sequences, FiniteSets, TLC

VARIABLES
    A, B,       \* the two extents an extent operation is applied to
    op,         \* name of the last extent operation applied
    args,       \* the arguments of that operation besides A and B
    result,     \* what that operation returned
    E, idx,     \* a halo extent and an index vector to convert between frames
    globale_extent,             \* BlockPartition argument: the extent to partition
    dims,                       \* number of partitions along each axis
    cart_coord_to_cart_rank,    \* BlockPartition argument: coordinate -> rank map
    halo,                       \* the requested halo, in the form the caller gave it; Decomposition: its _halo
    inter_locale_rank_to_rank,  \* BlockPartition argument: rank map or None
    distribution,               \* the Distribution built, None before
    shape,                      \* Decomposition: the array shape
    cart_rank_to_extents_dict,  \* Decomposition: cart rank -> DecompExtent
    dst_rank,                   \* HalosUpdate: rank receiving the halo updates
    updates,                    \* HalosUpdate: per axis, the <<LO, HI>> lists of updates
    loop_dir, loop_a, loop_i,   \* HalosUpdate.initialise: the loop variables dir, a, i
    pc,                         \* HalosUpdate.initialise: position in the method
    mem_node_topology,          \* Decomposition: its MemAllocTopology, as rank 0 sees it
    halo_updates_dict,          \* Decomposition: cart rank -> the buckets of its HalosUpdate
    node,                       \* the shared-memory node of every rank of rank_comm
    proc,                       \* per rank: position in the build and its local variables
    entered                     \* per rank: the collectives entered so far, in order

partVars == <<globale_extent, dims, cart_coord_to_cart_rank, halo,
              inter_locale_rank_to_rank, distribution>>

decompVars == <<shape, cart_rank_to_extents_dict, dst_rank, updates,
                loop_dir, loop_a, loop_i, pc, mem_node_topology, halo_updates_dict>>

buildVars == <<node, proc, entered>>

vars == <<A, B, op, args, result, E, idx, partVars, decompVars, buildVars>>

(***************************************************************************)
(* Bounds of the model.                                                    *)
(***************************************************************************)
MaxCoord == 3       \* extent coordinates are drawn from 0..MaxCoord
MaxHalo == 2        \* requested halo widths are drawn from 0..MaxHalo
MaxShape == 3       \* globale shapes are drawn from 1..MaxShape on every axis
MaxLocales == 4     \* grids have at most MaxLocales locales

NdimSet == {1, 2}   \* array dimensions modelled

(***************************************************************************)
(* Program constants.                                                      *)
(***************************************************************************)
LO == 0
HI == 1

\* python's None (an absent extent, an argument left out)
None == [none |-> TRUE]
\* a dict given as an argument that may also be None
Dict(f) == [dict |-> f]
\* an integer or a sequence given as an argument that may also be None
Some(x) == [some |-> x]

Max(x, y) == IF x >= y THEN x ELSE y
Min(x, y) == IF x <= y THEN x ELSE y

\* numpy.maximum / numpy.minimum on two vectors
maximum(u, v) == [k \in DOMAIN u |-> Max(u[k], v[k])]
minimum(u, v) == [k \in DOMAIN u |-> Min(u[k], v[k])]

(***************************************************************************)
(* IndexingExtent                                                          *)
(***************************************************************************)
IndexingExtent(start, stop) == [beg |-> start, end |-> stop]

ndim(self) == Len(self.beg)

\* calc_intersection with the stop taken from self alone
calc_intersection_self_stop(self, other) ==
    LET intersection_extent ==
            IndexingExtent(maximum(self.beg, other.beg), self.end)
    IN  IF \E k \in DOMAIN intersection_extent.beg :
               intersection_extent.beg[k] >= intersection_extent.end[k]
        THEN None
        ELSE intersection_extent

\* calc_intersection that reports an empty box instead of None
calc_intersection_keeps_empty(self, other) ==
    LET intersection_extent ==
            IndexingExtent(maximum(self.beg, other.beg),
                           minimum(self.end, other.end))
    IN  IF \E k \in DOMAIN intersection_extent.beg :
               intersection_extent.beg[k] > intersection_extent.end[k]
        THEN None
        ELSE intersection_extent

calc_intersection(self, other) ==
    LET intersection_extent ==
            IndexingExtent(maximum(self.beg, other.beg),
                           minimum(self.end, other.end))
    IN  IF \E k \in DOMAIN intersection_extent.beg :
               intersection_extent.beg[k] >= intersection_extent.end[k]
        THEN None
        ELSE intersection_extent

\* split whose lo piece keeps the stop of self
split_lo_keeps_stop(self, a, index) ==
    IF index <= self.beg[a] THEN <<None, self>>
    ELSE IF index >= self.end[a] THEN <<self, None>>
    ELSE <<IndexingExtent(self.beg, self.end),
           IndexingExtent([self.beg EXCEPT ![a] = index], self.end)>>

\* split whose hi piece keeps the start of self
split_hi_keeps_start(self, a, index) ==
    IF index <= self.beg[a] THEN <<None, self>>
    ELSE IF index >= self.end[a] THEN <<self, None>>
    ELSE <<IndexingExtent(self.beg, [self.end EXCEPT ![a] = index]),
           IndexingExtent(self.beg, self.end)>>

\* returns the pair <<lo, hi>>
split(self, a, index) ==
    IF index <= self.beg[a] THEN <<None, self>>
    ELSE IF index >= self.end[a] THEN <<self, None>>
    ELSE <<IndexingExtent(self.beg, [self.end EXCEPT ![a] = index]),
           IndexingExtent([self.beg EXCEPT ![a] = index], self.end)>>

\* the loop emitting the high remainder of an axis before its low remainder
RECURSIVE split_loop_hi_first(_, _, _, _)
split_loop_hi_first(intersection, a, q, leftovers) ==
    IF a > Len(intersection.beg) THEN [leftovers |-> leftovers, q |-> q, raised |-> FALSE]
    ELSE IF q = <<>> THEN [leftovers |-> leftovers, q |-> q, raised |-> TRUE]
    ELSE
        LET o   == q[Len(q)]
            q1  == SubSeq(q, 1, Len(q) - 1)
            s1  == split(o, a, intersection.beg[a])
            s2  == IF s1[2] # None
                   THEN split(s1[2], a, intersection.end[a])
                   ELSE <<None, None>>
            q2  == IF s2[1] # None THEN Append(q1, s2[1]) ELSE q1
            l1  == IF s2[2] # None THEN Append(leftovers, s2[2]) ELSE leftovers
            l2  == IF s1[1] # None THEN Append(l1, s1[1]) ELSE l1
        IN  split_loop_hi_first(intersection, a + 1, q2, l2)

\* The "for a in range(self.ndim)" loop of calc_intersection_split, from
\* axis a on, with deque q and the leftovers emitted so far.  Popping an
\* empty deque raises IndexError.
RECURSIVE split_loop(_, _, _, _)
split_loop(intersection, a, q, leftovers) ==
    IF a > Len(intersection.beg) THEN [leftovers |-> leftovers, q |-> q, raised |-> FALSE]
    ELSE IF q = <<>> THEN [leftovers |-> leftovers, q |-> q, raised |-> TRUE]
    ELSE
        LET o   == q[Len(q)]
            q1  == SubSeq(q, 1, Len(q) - 1)
            s1  == split(o, a, intersection.beg[a])
            l1  == IF s1[1] # None THEN Append(leftovers, s1[1]) ELSE leftovers
            s2  == IF s1[2] # None
                   THEN split(s1[2], a, intersection.end[a])
                   ELSE <<None, None>>
            q2  == IF s2[1] # None THEN Append(q1, s2[1]) ELSE q1
            l2  == IF s2[2] # None THEN Append(l1, s2[2]) ELSE l1
        IN  split_loop(intersection, a + 1, q2, l2)

\* leftovers when the intersection is absent
no_intersection_leftovers(self, other) == <<other>>

\* returns [leftovers, intersection] and, for inspection, the deque q left
\* behind by the loop
calc_intersection_split(self, other) ==
    LET intersection == calc_intersection(self, other)
    IN  IF intersection # None
        THEN LET r == split_loop(intersection, 1, <<self>>, <<>>)
             IN  [leftovers |-> r.leftovers, intersection |-> intersection,
                  q |-> r.q, raised |-> r.raised]
        ELSE [leftovers |-> no_intersection_leftovers(self, other),
              intersection |-> None, q |-> <<>>, raised |-> FALSE]

(***************************************************************************)
(* HaloIndexingExtent                                                      *)
(***************************************************************************)
HaloIndexingExtent(start, stop, halo_) == [beg |-> start, end |-> stop, halo |-> halo_]

start_n(self) == self.beg
stop_n(self) == self.end
start_h(self) == [k \in DOMAIN self.beg |-> self.beg[k] - self.halo[k][LO + 1]]
stop_h(self) == [k \in DOMAIN self.end |-> self.end[k] + self.halo[k][HI + 1]]
shape_n(self) == [k \in DOMAIN self.beg |-> self.end[k] - self.beg[k]]

globale_to_locale_h(self, gidx) == [k \in DOMAIN gidx |-> (0 - start_h(self)[k]) + gidx[k]]
\* locale_to_globale_h that adds the no-halo start
locale_to_globale_h_no_halo(self, lidx) == [k \in DOMAIN lidx |-> self.beg[k] + lidx[k]]
locale_to_globale_h(self, lidx) == [k \in DOMAIN lidx |-> start_h(self)[k] + lidx[k]]
globale_to_locale_n(self, gidx) == [k \in DOMAIN gidx |-> (0 - start_n(self)[k]) + gidx[k]]
locale_to_globale_n(self, lidx) == [k \in DOMAIN lidx |-> start_n(self)[k] + lidx[k]]

(***************************************************************************)
(* Sets of inputs.                                                         *)
(***************************************************************************)
Coords == 0..MaxCoord
Vectors(n, S) == [1..n -> S]
\* extents permitted by the data model: beg[i] <= end[i] (empty allowed)
Extents(n) ==
    {IndexingExtent(b, e) : <<b, e>> \in
        {be \in Vectors(n, Coords) \X Vectors(n, Coords) :
            \A k \in 1..n : be[1][k] <= be[2][k]}}
HaloValues == 0..MaxHalo
\* halo matrices: <<l, h>> on the odd axes and <<h, l>> on the even ones
Halos(n) ==
    {[k \in 1..n |-> IF k % 2 = 1 THEN <<l, h>> ELSE <<h, l>>] :
        l \in HaloValues, h \in HaloValues}
\* halos given per axis (the same width on both sides of an axis)
AxisHalos(n) == {[k \in 1..n |-> <<w[k], w[k]>>] : w \in Vectors(n, HaloValues)}
\* index vectors to convert, inside and outside the extents
IndexVectors(n) == Vectors(n, (0 - 1)..MaxCoord)

\* the set of index vectors of an extent
Indices(e) ==
    {p \in Vectors(Len(e.beg), Coords) : \A k \in 1..Len(e.beg) : e.beg[k] <= p[k] /\ p[k] < e.end[k]}

\* the variables of the block partition, in a specification without one
PartitionUnused ==
    /\ globale_extent = None /\ dims = None /\ cart_coord_to_cart_rank = None
    /\ halo = None /\ inter_locale_rank_to_rank = None /\ distribution = None

\* the variables of the decomposition, in a specification without one
DecompositionUnused ==
    /\ shape = None /\ cart_rank_to_extents_dict = None /\ dst_rank = None
    /\ updates = None /\ loop_dir = None /\ loop_a = None /\ loop_i = None
    /\ pc = "unused"
    /\ mem_node_topology = None /\ halo_updates_dict = None

\* the variables of the distribution build, in a specification without one
BuildUnused ==
    /\ node = None /\ proc = None /\ entered = None

(***************************************************************************)
(* Specification of the extent operations: Init draws the pair of extents, *)
(* each action applies one operation to them.                              *)
(***************************************************************************)
InitExtent ==
    /\ \E n \in NdimSet : A \in Extents(n) /\ B \in Extents(n)
    /\ op = "none"
    /\ args = None
    /\ result = None
    /\ E = None
    /\ idx = None
    /\ PartitionUnused
    /\ DecompositionUnused
    /\ BuildUnused

DoCalcIntersection ==
    /\ op = "none"
    /\ op' = "calc_intersection"
    /\ args' = None
    /\ result' = [ab |-> calc_intersection(A, B), ba |-> calc_intersection(B, A)]
    /\ UNCHANGED <<A, B, E, idx, partVars, buildVars, decompVars>>

DoSplit ==
    \E a \in 1..ndim(A), index \in Coords :
        /\ op = "none"
        /\ op' = "split"
        /\ args' = [a |-> a, index |-> index]
        /\ result' = split(A, a, index)
        /\ UNCHANGED <<A, B, E, idx, partVars, buildVars, decompVars>>

DoCalcIntersectionSplit ==
    /\ op = "none"
    /\ op' = "calc_intersection_split"
    /\ args' = None
    /\ result' = calc_intersection_split(A, B)
    /\ UNCHANGED <<A, B, E, idx, partVars, buildVars, decompVars>>

\* A.calc_intersection(A)
DoCalcSelfIntersection ==
    /\ op = "none"
    /\ op' = "calc_self_intersection"
    /\ args' = None
    /\ result' = calc_intersection(A, A)
    /\ UNCHANGED <<A, B, E, idx, partVars, buildVars, decompVars>>

NextExtent ==
    \/ DoCalcIntersection
    \/ DoCalcSelfIntersection
    \/ DoSplit
    \/ DoCalcIntersectionSplit

SpecExtent == InitExtent /\ [][NextExtent]_vars

(***************************************************************************)
(* Specification of the index-frame conversions: Init draws a halo extent  *)
(* E and an index vector idx, each action applies one conversion to idx and    *)
(* the opposite conversion to its result.                                  *)
(***************************************************************************)
InitFrame ==
    /\ \E n \in NdimSet :
          /\ E \in {HaloIndexingExtent(x.beg, x.end, h) : x \in Extents(n), h \in AxisHalos(n)}
          /\ idx \in IndexVectors(n)
    /\ op = "none"
    /\ args = None
    /\ result = None
    /\ A = None
    /\ B = None
    /\ PartitionUnused
    /\ DecompositionUnused
    /\ BuildUnused

DoGlobaleToLocaleH ==
    /\ op = "none"
    /\ op' = "globale_to_locale_h"
    /\ result' = [to |-> globale_to_locale_h(E, idx),
                  back |-> locale_to_globale_h(E, globale_to_locale_h(E, idx))]
    /\ UNCHANGED <<A, B, args, E, idx, partVars, buildVars, decompVars>>

DoLocaleToGlobaleH ==
    /\ op = "none"
    /\ op' = "locale_to_globale_h"
    /\ result' = [to |-> locale_to_globale_h(E, idx),
                  back |-> globale_to_locale_h(E, locale_to_globale_h(E, idx))]
    /\ UNCHANGED <<A, B, args, E, idx, partVars, buildVars, decompVars>>

DoGlobaleToLocaleN ==
    /\ op = "none"
    /\ op' = "globale_to_locale_n"
    /\ result' = [to |-> globale_to_locale_n(E, idx),
                  back |-> locale_to_globale_n(E, globale_to_locale_n(E, idx))]
    /\ UNCHANGED <<A, B, args, E, idx, partVars, buildVars, decompVars>>

DoLocaleToGlobaleN ==
    /\ op = "none"
    /\ op' = "locale_to_globale_n"
    /\ result' = [to |-> locale_to_globale_n(E, idx),
                  back |-> globale_to_locale_n(E, locale_to_globale_n(E, idx))]
    /\ UNCHANGED <<A, B, args, E, idx, partVars, buildVars, decompVars>>

NextFrame ==
    \/ DoGlobaleToLocaleH
    \/ DoLocaleToGlobaleH
    \/ DoGlobaleToLocaleN
    \/ DoLocaleToGlobaleN

SpecFrame == InitFrame /\ [][NextFrame]_vars


(***************************************************************************)
(* Properties of the extent operations (SpecExtent).                       *)
(***************************************************************************)
Disjoint(x, y) == Indices(x) \cap Indices(y) = {}
Within(x, y) == \A k \in 1..Len(x.beg) : y.beg[k] <= x.beg[k] /\ x.end[k] <= y.end[k]

\* C1: when the intersection of A and B is present, the leftovers and the
\* intersection returned by A.calc_intersection_split(B) tile A exactly:
\* every index of A lies in exactly one of them, no leftover reaches outside
\* A, the leftovers are pairwise disjoint and each is disjoint from the
\* intersection.
C1_SplitTilesSelf ==
    (op = "calc_intersection_split" /\ result.intersection # None) =>
        LET L == result.leftovers
            I == result.intersection
        IN  /\ ~result.raised
            /\ \A p \in Indices(A) :
                   Cardinality({k \in 1..Len(L) : p \in Indices(L[k])})
                       + (IF p \in Indices(I) THEN 1 ELSE 0) = 1
            /\ \A k \in 1..Len(L) : Within(L[k], A)
            /\ \A k, m \in 1..Len(L) : k # m => Disjoint(L[k], L[m])
            /\ \A k \in 1..Len(L) : Disjoint(L[k], I)

\* a split with a remainder on both sides of both axes
C1_Witness ==
    /\ op = "calc_intersection_split"
    /\ result.intersection # None
    /\ ndim(A) = 2
    /\ Len(result.leftovers) = 4

\* C2: when the intersection of A and B is absent, A.calc_intersection_split(B)
\* returns an empty leftovers list and an absent intersection.
C2_AbsentGivesEmptyLeftovers ==
    (op = "calc_intersection_split" /\ calc_intersection(A, B) = None) =>
        /\ result.leftovers = <<>>
        /\ result.intersection = None

\* C10: A.calc_intersection(B) and B.calc_intersection(A) are both absent
\* or both present and equal, the present result being the box
\* [max(A.beg, B.beg), min(A.end, B.end)).
C10_IntersectionSymmetric ==
    (op = "calc_intersection") =>
        /\ result.ab = result.ba
        /\ LET lo == [k \in 1..ndim(A) |-> IF A.beg[k] >= B.beg[k] THEN A.beg[k] ELSE B.beg[k]]
               hi == [k \in 1..ndim(A) |-> IF A.end[k] <= B.end[k] THEN A.end[k] ELSE B.end[k]]
           IN  IF \A k \in 1..ndim(A) : lo[k] < hi[k]
               THEN result.ab = [beg |-> lo, end |-> hi]
               ELSE result.ab = None

\* a present intersection of two extents neither of which contains the other
C10_Witness ==
    /\ op = "calc_intersection"
    /\ result.ab # None
    /\ result.ab # A
    /\ result.ab # B

\* an extent with no index: beg[k] = end[k] on some axis
IsEmpty(x) == \E k \in 1..Len(x.beg) : x.beg[k] = x.end[k]

\* C11 as claimed: for every extent A the data model permits, an empty one
\* included, A.calc_intersection(A) is present and equal to A.
C11_SelfIntersectionIsSelf ==
    (op = "calc_self_intersection") => (result # None /\ result = A)

\* C11 as amended: A.calc_intersection(A) is present and equal to A when A
\* is not empty, and absent when A is empty on some axis.
C11_SelfIntersectionOfNonEmpty ==
    (op = "calc_self_intersection") =>
        IF IsEmpty(A) THEN result = None ELSE result = A

\* the self-intersection of an extent that is empty on one axis only
C11_Witness ==
    /\ op = "calc_self_intersection"
    /\ ndim(A) = 2
    /\ A.beg[1] = A.end[1]
    /\ A.beg[2] < A.end[2]
    /\ result = None

\* C12: A.split(axis, k) returns (None, A) when k <= A.beg[axis]; failing
\* that, (A, None) when k >= A.end[axis]; otherwise a pair (lo, hi) with
\* lo.end[axis] = hi.beg[axis] = k and every other coordinate equal to A's,
\* lo and hi disjoint, both non-empty on that axis, their union A.
C12_SplitCases ==
    (op = "split") =>
        LET a == args.a
            k == args.index
            lo == result[1]
            hi == result[2]
        IN  IF k <= A.beg[a] THEN lo = None /\ hi = A
            ELSE IF k >= A.end[a] THEN lo = A /\ hi = None
            ELSE /\ lo # None /\ hi # None
                 /\ lo.end[a] = k /\ hi.beg[a] = k
                 /\ lo.beg = A.beg /\ hi.end = A.end
                 /\ \A j \in 1..ndim(A) :
                        j # a => lo.end[j] = A.end[j] /\ hi.beg[j] = A.beg[j]
                 /\ lo.beg[a] < lo.end[a] /\ hi.beg[a] < hi.end[a]
                 /\ Disjoint(lo, hi)
                 /\ Indices(lo) \cup Indices(hi) = Indices(A)

\* a cut strictly inside a 2-D extent along its second axis
C12_Witness ==
    /\ op = "split"
    /\ ndim(A) = 2
    /\ args.a = 2
    /\ result[1] # None /\ result[2] # None
    /\ Indices(A) # {}

(***************************************************************************)
(* Properties of the index-frame conversions (SpecFrame).                  *)
(***************************************************************************)
\* C9: locale_to_globale_h after globale_to_locale_h, and the other way
\* round, give back the index vector, and likewise for the _n pair;
\* globale_to_locale_h(g) = g - start_h and globale_to_locale_n(g) = g - start_n.
C9_FrameRoundTrip ==
    /\ op \in {"globale_to_locale_h", "locale_to_globale_h",
               "globale_to_locale_n", "locale_to_globale_n"} => result.back = idx
    /\ op = "globale_to_locale_h" =>
           result.to = [k \in 1..Len(idx) |-> idx[k] - (E.beg[k] - E.halo[k][1])]
    /\ op = "globale_to_locale_n" =>
           result.to = [k \in 1..Len(idx) |-> idx[k] - E.beg[k]]

\* a round trip through the with-halo frame of an extent with a halo
C9_Witness ==
    /\ op = "globale_to_locale_h"
    /\ E.halo[1][1] > 0
    /\ E.beg[1] > 0
    /\ result.to # idx
    /\ result.back = idx


(***************************************************************************)
(* array_split: halo forms and the balanced split of a shape.              *)
(***************************************************************************)
\* A halo as the caller gives it: an integer (the same width everywhere), a
\* per-axis sequence (the same width on both sides of an axis) or an
\* ndim x 2 matrix.
ScalarHalo(h) == [form |-> "scalar", value |-> h]
AxisHalo(w) == [form |-> "axis", value |-> w]
MatrixHalo(m) == [form |-> "matrix", value |-> m]

convert_halo_to_array_form(halo_, n) ==
    IF halo_ = None THEN [k \in 1..n |-> <<0, 0>>]
    ELSE IF halo_.form = "scalar" THEN [k \in 1..n |-> <<halo_.value, halo_.value>>]
    ELSE IF halo_.form = "axis" THEN [k \in 1..n |-> <<halo_.value[k], halo_.value[k]>>]
    ELSE halo_.value

\* start of section k (0-based) of an axis of length size cut into
\* num_sections balanced sections, the larger sections first
axis_split_beg(num_sections, size, k) ==
    k * (size \div num_sections) + Min(k, size % num_sections)

\* ShapeSplitter(array_shape, array_start, axis, halo=0).calculate_split():
\* the tile (a tuple of slices, here a box) of every cartesian coordinate
calculate_split(array_shape, array_start, axis) ==
    [c \in {cc \in [1..Len(axis) -> 0..(MaxLocales + 1)] :
                \A k \in 1..Len(axis) : cc[k] < axis[k]} |->
        IndexingExtent(
            [k \in 1..Len(axis) |->
                array_start[k] + axis_split_beg(axis[k], array_shape[k], c[k])],
            [k \in 1..Len(axis) |->
                array_start[k] + axis_split_beg(axis[k], array_shape[k], c[k] + 1)])]

RECURSIVE product(_)
product(s) == IF s = <<>> THEN 1 ELSE s[1] * product(Tail(s))

\* numpy.unravel_index(i, shape), C order
RECURSIVE unravel_index(_, _)
unravel_index(i, shp) ==
    IF shp = <<>> THEN <<>>
    ELSE LET rest == product(Tail(shp))
         IN  <<i \div rest>> \o unravel_index(i % rest, Tail(shp))

(***************************************************************************)
(* GlobaleExtent, HaloSubExtent, LocaleExtent, CartLocaleExtent            *)
(***************************************************************************)
UNDEFINED == 0 - 32766

GlobaleExtent(start, stop, halo_) ==
    HaloIndexingExtent(start, stop, convert_halo_to_array_form(halo_, Len(start)))

\* the halo of a HaloSubExtent that requests every ghost element asked for
requested_halo(globale, start, stop, halo_) ==
    convert_halo_to_array_form(halo_, Len(start))

\* the halo of a HaloSubExtent, trimmed to the halo region of the globale
\* extent
trimmed_halo(globale, start, stop, halo_) ==
    LET h == convert_halo_to_array_form(halo_, Len(start))
    IN  [k \in 1..Len(start) |->
            <<Max(0, Min(start[k] - start_h(globale)[k], h[k][LO + 1])),
              Max(0, Min(stop_h(globale)[k] - stop[k], h[k][HI + 1]))>>]

HaloSubExtent(globale, start, stop, halo_) ==
    HaloIndexingExtent(start, stop, trimmed_halo(globale, start, stop, halo_))

CartLocaleExtent(rank, inter_locale_rank, cart_coord, cart_shape, globale, start, stop, halo_) ==
    [beg |-> start, end |-> stop,
     halo |-> HaloSubExtent(globale, start, stop, halo_).halo,
     rank |-> rank, inter_locale_rank |-> inter_locale_rank,
     cart_coord |-> cart_coord, cart_shape |-> cart_shape]

(***************************************************************************)
(* Distribution, BlockPartition                                            *)
(***************************************************************************)
\* a get_rank that takes the inter-locale rank for the rank
get_rank_is_inter_locale_rank(ilr_to_rank, inter_locale_rank) == inter_locale_rank

get_rank(ilr_to_rank, inter_locale_rank) ==
    IF ilr_to_rank # None THEN ilr_to_rank.dict[inter_locale_rank] ELSE UNDEFINED

\* create_globale_extent that gives the globale extent the requested halo
create_globale_extent_keeps_halo(ge, halo_) ==
    GlobaleExtent(ge.beg, ge.end, halo_)

\* "Don't support globale halo/border yet": the halo is always 0
create_globale_extent(ge, halo_) ==
    GlobaleExtent(ge.beg, ge.end, ScalarHalo(0))

\* BlockPartition.create_locale_extent
create_locale_extent(ilr_to_rank, rank_to_coord, dims_, inter_locale_rank, locale_extent, globale, halo_) ==
    CartLocaleExtent(get_rank(ilr_to_rank, inter_locale_rank), inter_locale_rank,
                     rank_to_coord[inter_locale_rank], dims_,
                     globale, locale_extent.beg, locale_extent.end, halo_)

\* the loop of Distribution.__init__ reading entry 0 on every turn
locale_extents_from_first(ilr_to_rank, rank_to_coord, dims_, locale_extents, globale, halo_) ==
    [r \in DOMAIN locale_extents |->
        create_locale_extent(ilr_to_rank, rank_to_coord, dims_, r,
                             locale_extents[0], globale, halo_)]

\* the loop of Distribution.__init__: entry i of locale_extents becomes the
\* locale extent of inter_locale_rank i
locale_extents_init(ilr_to_rank, rank_to_coord, dims_, locale_extents, globale, halo_) ==
    [r \in DOMAIN locale_extents |->
        create_locale_extent(ilr_to_rank, rank_to_coord, dims_, r,
                             locale_extents[r], globale, halo_)]

BlockPartition(ge, dims_, coord_to_rank, halo_, ilr_to_rank) ==
    LET globale == create_globale_extent(ge, halo_)
        num_locales == product(dims_)
        splt == calculate_split(shape_n(globale), start_n(globale), dims_)
        locale_extents ==
            IF num_locales > 1
            THEN [r \in 0..(num_locales - 1) |->
                    splt[CHOOSE c \in DOMAIN splt : coord_to_rank.dict[c] = r]]
            ELSE [r \in {0} |-> globale]
        c2r == IF num_locales > 1 \/ coord_to_rank # None
               THEN coord_to_rank.dict
               ELSE [c \in {[k \in 1..ndim(globale) |-> 0]} |-> 0]
        rank_to_coord == [r \in {c2r[c] : c \in DOMAIN c2r} |->
                            CHOOSE c \in DOMAIN c2r : c2r[c] = r]
    IN  [globale_extent |-> globale,
         halo |-> convert_halo_to_array_form(halo_, ndim(globale)),
         num_locales |-> num_locales,
         dims |-> dims_,
         cart_coord_to_cart_rank |-> c2r,
         inter_locale_rank_to_rank |-> ilr_to_rank,
         locale_extents |->
             locale_extents_init(ilr_to_rank, rank_to_coord, dims_,
                                 locale_extents, globale, halo_)]

(***************************************************************************)
(* Inputs of a block partition.                                            *)
(***************************************************************************)
Shapes(n) == Vectors(n, 1..MaxShape)
Grids(n) == {d \in Vectors(n, 1..MaxLocales) : product(d) <= MaxLocales}
GridCoords(d) == {c \in Vectors(Len(d), 0..(MaxLocales - 1)) : \A k \in 1..Len(d) : c[k] < d[k]}
\* rank of coordinate c in a grid d, C order
RECURSIVE ravel(_, _)
ravel(c, d) ==
    IF c = <<>> THEN 0 ELSE c[1] * product(Tail(d)) + ravel(Tail(c), Tail(d))
\* bijections between the coordinates of a grid and its ranks: C order, and
\* C order counted from the last rank down (cartesian creation may reorder)
CoordToRankMaps(d) ==
    {Dict([c \in GridCoords(d) |-> ravel(c, d)]),
     Dict([c \in GridCoords(d) |-> product(d) - 1 - ravel(c, d)])}
\* requested halos in the three forms, a negative width included
RequestedHalos(n) ==
    {ScalarHalo(h) : h \in (0 - 1)..MaxHalo}
        \cup {AxisHalo(w) : w \in Vectors(n, HaloValues)}
        \cup {MatrixHalo(m) : m \in Halos(n)}
\* inter-locale rank -> flat rank: locale leaders are the even flat ranks
RankMaps(d) == {None, Dict([r \in 0..(product(d) - 1) |-> 2 * r])}

(***************************************************************************)
(* Specification of the block partition: Init draws the arguments, the     *)
(* action constructs the BlockPartition.                                   *)
(***************************************************************************)
InitPartition ==
    /\ \E n \in NdimSet :
          /\ \E s \in Shapes(n), o \in 0..1 :
                globale_extent = GlobaleExtent([k \in 1..n |-> o], [k \in 1..n |-> o + s[k]], None)
          /\ dims \in Grids(n)
          /\ halo \in RequestedHalos(n)
    /\ cart_coord_to_cart_rank \in
          CoordToRankMaps(dims) \cup (IF product(dims) = 1 THEN {None} ELSE {})
    /\ inter_locale_rank_to_rank \in RankMaps(dims)
    /\ distribution = None
    /\ op = "none"
    /\ A = None /\ B = None /\ args = None /\ result = None
    /\ E = None /\ idx = None
    /\ DecompositionUnused
    /\ BuildUnused

NewBlockPartition ==
    /\ op = "none"
    /\ op' = "BlockPartition"
    /\ distribution' = BlockPartition(globale_extent, dims, cart_coord_to_cart_rank,
                                      halo, inter_locale_rank_to_rank)
    /\ UNCHANGED <<A, B, args, result, E, idx, globale_extent, dims,
                   cart_coord_to_cart_rank, halo, inter_locale_rank_to_rank,
                   decompVars, buildVars>>

NextPartition == NewBlockPartition

SpecPartition == InitPartition /\ [][NextPartition]_vars

(***************************************************************************)
(* Properties of the block partition (SpecPartition).                      *)
(***************************************************************************)
\* indices of the box [beg, end), whatever the coordinates
BoxIndices(b, e) ==
    {p \in Vectors(Len(b), 0..(MaxShape + 2)) : \A k \in 1..Len(b) : b[k] <= p[k] /\ p[k] < e[k]}

Disjoint2(x, y) == BoxIndices(x.beg, x.end) \cap BoxIndices(y.beg, y.end) = {}

\* C3: the interiors of locale_extents[0..num_locales-1] of a BlockPartition
\* are pairwise disjoint and their union is the globale interior.
C3_InteriorsPartitionGlobale ==
    (op = "BlockPartition") =>
        LET L == distribution.locale_extents
            G == distribution.globale_extent
        IN  /\ DOMAIN L = 0..(product(dims) - 1)
            /\ UNION {BoxIndices(L[r].beg, L[r].end) : r \in DOMAIN L} = BoxIndices(G.beg, G.end)
            /\ \A r, t \in DOMAIN L :
                   r # t => BoxIndices(L[r].beg, L[r].end) \cap BoxIndices(L[t].beg, L[t].end) = {}

\* a 2-D grid with more tiles than elements along the first axis, a
\* reordered rank map and a requested halo
C3_Witness ==
    /\ op = "BlockPartition"
    /\ ndim(globale_extent) = 2
    /\ dims[1] > shape_n(globale_extent)[1]
    /\ cart_coord_to_cart_rank.dict[<<0, 0>>] # 0
    /\ distribution.halo[1][1] > 0

\* C4: the final halo of every locale extent is, per axis and side,
\* max(0, min(requested, distance from the interior to the globale boundary)),
\* so no halo entry is negative and no halo reaches outside the globale
\* extent.
C4_HaloTrimmedToGlobale ==
    (op = "BlockPartition") =>
        LET G == distribution.globale_extent
            req == distribution.halo
        IN  \A r \in DOMAIN distribution.locale_extents :
                LET L == distribution.locale_extents[r]
                IN  \A k \in 1..Len(L.beg) :
                        LET dlo == L.beg[k] - G.beg[k]
                            dhi == G.end[k] - L.end[k]
                            mlo == IF req[k][1] <= dlo THEN req[k][1] ELSE dlo
                            mhi == IF req[k][2] <= dhi THEN req[k][2] ELSE dhi
                        IN  /\ L.halo[k][1] = (IF mlo >= 0 THEN mlo ELSE 0)
                            /\ L.halo[k][2] = (IF mhi >= 0 THEN mhi ELSE 0)
                            /\ L.halo[k][1] >= 0
                            /\ L.halo[k][2] >= 0
                            /\ L.beg[k] - L.halo[k][1] >= G.beg[k]
                            /\ L.end[k] + L.halo[k][2] <= G.end[k]

\* a locale whose requested halo is cut on one side and kept on the other
C4_Witness ==
    /\ op = "BlockPartition"
    /\ \E r \in DOMAIN distribution.locale_extents :
          LET L == distribution.locale_extents[r]
          IN  /\ L.halo[1][1] = 0
              /\ L.halo[1][2] > 0
              /\ L.halo[1][2] < distribution.halo[1][2]
              /\ distribution.halo[1][1] > 0


(***************************************************************************)
(* DecompExtent (mpi_array/decomposition.py)                               *)
(***************************************************************************)
\* the halo of a DecompExtent under the ARRAY_BOUNDS policy
array_bounds_halo(array_shape, start, stop, halo_) ==
    LET h == convert_halo_to_array_form(halo_, Len(start))
    IN  [k \in 1..Len(start) |->
            <<Min(start[k], h[k][LO + 1]),
              Min(array_shape[k] - stop[k], h[k][HI + 1])>>]

DecompExtent(cart_rank, cart_coord, cart_shape, array_shape, slice, halo_) ==
    [beg |-> slice.beg, end |-> slice.end,
     halo |-> array_bounds_halo(array_shape, slice.beg, slice.end, halo_),
     cart_rank |-> cart_rank, cart_coord |-> cart_coord, cart_shape |-> cart_shape]

halo_slab_extent(self, axis, dir) ==
    IF dir = LO
    THEN IndexingExtent(start_h(self),
                        [stop_h(self) EXCEPT ![axis] = start_h(self)[axis] + self.halo[axis][LO + 1]])
    ELSE IndexingExtent([start_h(self) EXCEPT ![axis] = stop_h(self)[axis] - self.halo[axis][HI + 1]],
                        stop_h(self))

\* no_halo_extent that trims nothing
no_halo_extent_keeps_halo(self, axis) ==
    IndexingExtent(start_h(self), stop_h(self))

no_halo_extent(self, axis) ==
    IndexingExtent([start_h(self) EXCEPT ![axis] = @ + self.halo[axis][LO + 1]],
                   [stop_h(self) EXCEPT ![axis] = @ - self.halo[axis][HI + 1]])

(***************************************************************************)
(* HalosUpdate                                                             *)
(***************************************************************************)
SingleExtentUpdate(dst, src, update_extent) ==
    [dst_extent |-> dst, src_extent |-> src, update_extent |-> update_extent]

\* calc_halo_intersection against the whole halo slab side of the source:
\* the source trimmed on the wrong axis
calc_halo_intersection_other_axis(dst, src, axis, dir) ==
    calc_intersection(halo_slab_extent(dst, axis, dir),
                      no_halo_extent(src, 1 + (axis % Len(src.beg))))

calc_halo_intersection(dst, src, axis, dir) ==
    calc_intersection(halo_slab_extent(dst, axis, dir),
                      no_halo_extent(src, axis))

split_extent_for_max_elements(extent) == <<extent>>

\* [[[], []]] * ndim: one <<LO, HI>> pair of lists, referred to by every axis
empty_updates(n) == [k \in 1..n |-> <<<<>>, <<>>>>]

\* self._updates[a][dir] += records: the pair of lists is the same object
\* for every axis, so the records show in the dir list of every axis
updates_extend(upd, a, dir, records) ==
    [k \in DOMAIN upd |-> [upd[k] EXCEPT ![dir + 1] = @ \o records]]

\* the values of i walked along axis a to side dir from cartesian
\* coordinate c of a grid of shape cs
i_range(dir, a, c, cs) ==
    IF dir = LO THEN {0 - n : n \in 1..c[a]}
    ELSE 1..(cs[a] - c[a] - 1)

\* the first value of i of a walk to side dir
first_i(dir) == IF dir = LO THEN 0 - 1 ELSE 1
\* the value of i after i in a walk to side dir
next_i(dir, i) == IF dir = LO THEN i - 1 ELSE i + 1

\* a lookup that returns the extent of the last rank whatever the coordinate
extent_at_last_rank(rank_to_extents, c) ==
    rank_to_extents[CHOOSE r \in DOMAIN rank_to_extents :
                        \A t \in DOMAIN rank_to_extents : t <= r]

\* the extent at a cartesian coordinate (cart_coord_to_extents_dict)
extent_at(rank_to_extents, c) ==
    rank_to_extents[CHOOSE r \in DOMAIN rank_to_extents : rank_to_extents[r].cart_coord = c]

(***************************************************************************)
(* Specification of the halo-update plan of a Decomposition: Init is the   *)
(* Decomposition with its extents calculated; HalosUpdate.initialise runs  *)
(* for a destination rank, one neighbour of the walk per step.             *)
(***************************************************************************)
\* the extents of Decomposition.recalculate
recalculate_extents(new_shape, new_halo, cart_dims) ==
    LET shape_decomp == calculate_split(new_shape, [k \in 1..Len(new_shape) |-> 0], cart_dims)
    IN  [cart_rank \in 0..(product(cart_dims) - 1) |->
            LET cart_coords == unravel_index(cart_rank, cart_dims)
            IN  DecompExtent(cart_rank, cart_coords, cart_dims, new_shape,
                             shape_decomp[cart_coords], new_halo)]

\* requested halos of a Decomposition: widths are counts of ghost elements
DecompHalos(n) ==
    {ScalarHalo(h) : h \in HaloValues}
        \cup {AxisHalo(w) : w \in Vectors(n, HaloValues)}
        \cup {MatrixHalo(m) : m \in Halos(n)}

InitDecomposition ==
    /\ \E n \in NdimSet :
          /\ shape \in Shapes(n)
          /\ dims \in {d \in Grids(n) : product(d) > 1}
          /\ halo \in DecompHalos(n)
    /\ cart_rank_to_extents_dict = recalculate_extents(shape, halo, dims)
    /\ dst_rank = None
    /\ updates = None
    /\ loop_dir = None /\ loop_a = None /\ loop_i = None
    /\ pc = "start"
    /\ mem_node_topology = None /\ halo_updates_dict = None
    /\ op = "none"
    /\ A = None /\ B = None /\ args = None /\ result = None
    /\ E = None /\ idx = None
    /\ globale_extent = None /\ cart_coord_to_cart_rank = None
    /\ inter_locale_rank_to_rank = None /\ distribution = None
    /\ BuildUnused

dst_extent == cart_rank_to_extents_dict[dst_rank]

\* the neighbour the walk is at
src_extent ==
    extent_at(cart_rank_to_extents_dict,
              [dst_extent.cart_coord EXCEPT ![loop_a] = @ + loop_i])

\* leave the loop over i: on to the next axis, the next side, or the end
LeaveWalk ==
    IF loop_a < ndim(dst_extent)
    THEN /\ loop_a' = loop_a + 1
         /\ loop_i' = first_i(loop_dir)
         /\ UNCHANGED <<loop_dir, pc>>
    ELSE IF loop_dir = LO
    THEN /\ loop_dir' = HI
         /\ loop_a' = 1
         /\ loop_i' = first_i(HI)
         /\ UNCHANGED pc
    ELSE /\ pc' = "done"
         /\ UNCHANGED <<loop_dir, loop_a, loop_i>>

Initialise ==
    /\ pc = "start"
    /\ \E r \in DOMAIN cart_rank_to_extents_dict : dst_rank' = r
    /\ updates' = empty_updates(Len(shape))
    /\ loop_dir' = LO
    /\ loop_a' = 1
    /\ loop_i' = first_i(LO)
    /\ pc' = "walk"
    /\ UNCHANGED <<A, B, op, args, result, E, idx, partVars, buildVars, shape,
                   cart_rank_to_extents_dict, mem_node_topology, halo_updates_dict>>

\* the neighbour overlaps the halo slab: record the update, walk on
WalkAppend ==
    /\ pc = "walk"
    /\ loop_i \in i_range(loop_dir, loop_a, dst_extent.cart_coord, dst_extent.cart_shape)
    /\ LET halo_extent == calc_halo_intersection(dst_extent, src_extent, loop_a, loop_dir)
       IN  /\ halo_extent # None
           /\ updates' = updates_extend(updates, loop_a, loop_dir,
                             split_extent_for_max_elements(
                                 SingleExtentUpdate(dst_extent, src_extent, halo_extent)))
    /\ loop_i' = next_i(loop_dir, loop_i)
    /\ UNCHANGED <<A, B, op, args, result, E, idx, partVars, buildVars, shape,
                   cart_rank_to_extents_dict, dst_rank, loop_dir, loop_a, pc,
                   mem_node_topology, halo_updates_dict>>

\* the neighbour does not overlap the halo slab: break
WalkBreak ==
    /\ pc = "walk"
    /\ loop_i \in i_range(loop_dir, loop_a, dst_extent.cart_coord, dst_extent.cart_shape)
    /\ calc_halo_intersection(dst_extent, src_extent, loop_a, loop_dir) = None
    /\ LeaveWalk
    /\ UNCHANGED <<A, B, op, args, result, E, idx, partVars, buildVars, shape,
                   cart_rank_to_extents_dict, dst_rank, updates,
                   mem_node_topology, halo_updates_dict>>

\* no neighbour left along this axis and side
WalkEnd ==
    /\ pc = "walk"
    /\ loop_i \notin i_range(loop_dir, loop_a, dst_extent.cart_coord, dst_extent.cart_shape)
    /\ LeaveWalk
    /\ UNCHANGED <<A, B, op, args, result, E, idx, partVars, buildVars, shape,
                   cart_rank_to_extents_dict, dst_rank, updates,
                   mem_node_topology, halo_updates_dict>>

NextDecomposition ==
    \/ Initialise
    \/ WalkAppend
    \/ WalkBreak
    \/ WalkEnd

SpecDecomposition == InitDecomposition /\ [][NextDecomposition]_vars


(***************************************************************************)
(* Properties of the halo-update plan (SpecDecomposition).                 *)
(***************************************************************************)
\* the update records of the plan of dst_rank, over all axes and both sides
PlanRecords ==
    UNION {{updates[k][d][n] : n \in 1..Len(updates[k][d])} :
             <<k, d>> \in (1..Len(updates)) \X {LO + 1, HI + 1}}

Interior(e) == BoxIndices(e.beg, e.end)
WithHalo(e) ==
    BoxIndices([k \in 1..Len(e.beg) |-> e.beg[k] - e.halo[k][1]],
               [k \in 1..Len(e.end) |-> e.end[k] + e.halo[k][2]])
HaloRegion(e) == WithHalo(e) \ Interior(e)
\* the axis along which the source of a record lies from its destination
RecordAxis(r) ==
    CHOOSE k \in 1..Len(r.dst_extent.beg) : r.src_extent.cart_coord[k] # r.dst_extent.cart_coord[k]

\* C5: the union of the overlap extents of the plan of a destination D is
\* the set of indices in D's extent-with-halo, outside D's interior, that
\* belong to the interior of some other locale.
C5_PlanCoversHalo ==
    (pc = "done") =>
        UNION {BoxIndices(r.update_extent.beg, r.update_extent.end) : r \in PlanRecords}
            = HaloRegion(dst_extent)
                \cap UNION {Interior(cart_rank_to_extents_dict[r]) :
                              r \in DOMAIN cart_rank_to_extents_dict \ {dst_rank}}

\* C6 as claimed: the overlap extents of any two distinct records of a plan
\* share no index.
C6_OverlapsDisjoint ==
    (pc \in {"walk", "done"}) =>
        \A r1, r2 \in PlanRecords :
            r1 # r2 => Disjoint2(r1.update_extent, r2.update_extent)

\* C6 as amended: the overlap extents of any two distinct records of a plan
\* whose sources lie along the same axis from the destination share no
\* index.
C6_OverlapsDisjointAlongAxis ==
    (pc \in {"walk", "done"}) =>
        \A r1, r2 \in PlanRecords :
            (r1 # r2 /\ RecordAxis(r1) = RecordAxis(r2))
                => Disjoint2(r1.update_extent, r2.update_extent)

\* a finished 2-D plan with two records from the same axis and side
C6_Witness ==
    /\ pc = "done"
    /\ Len(shape) = 2
    /\ \E k \in 1..2, d \in 1..2 :
          \E r1, r2 \in PlanRecords :
              /\ r1 # r2
              /\ RecordAxis(r1) = k /\ RecordAxis(r2) = k
              /\ r1.src_extent.cart_coord[k] < r1.dst_extent.cart_coord[k]
              /\ r2.src_extent.cart_coord[k] < r2.dst_extent.cart_coord[k]

\* C7 as claimed: every index of the overlap of a record (D, S, overlap)
\* lies in D's halo region and in S's interior on every axis.
C7_OverlapInSourceInterior ==
    (pc \in {"walk", "done"}) =>
        \A r \in PlanRecords :
            /\ BoxIndices(r.update_extent.beg, r.update_extent.end) \subseteq HaloRegion(r.dst_extent)
            /\ BoxIndices(r.update_extent.beg, r.update_extent.end) \subseteq Interior(r.src_extent)

\* C7 as amended: every index of the overlap of a record (D, S, overlap)
\* lies in D's halo region, in S's interior on the axis along which S lies
\* from D, and in S's extent-with-halo on the other axes.
C7_OverlapInSourceNoHaloAlongAxis ==
    (pc \in {"walk", "done"}) =>
        \A r \in PlanRecords :
            LET S == r.src_extent
                O == r.update_extent
                a == RecordAxis(r)
            IN  /\ BoxIndices(O.beg, O.end) # {}
                /\ BoxIndices(O.beg, O.end) \subseteq HaloRegion(r.dst_extent)
                /\ BoxIndices(O.beg, O.end) \subseteq WithHalo(S)
                /\ S.beg[a] <= O.beg[a] /\ O.end[a] <= S.end[a]

\* a record whose overlap holds a corner index, outside the interior of its
\* source
C7_Witness ==
    /\ pc = "done"
    /\ \E r \in PlanRecords :
          ~(BoxIndices(r.update_extent.beg, r.update_extent.end) \subseteq Interior(r.src_extent))

\* C8: along an axis and side, if the neighbour at step i yields no overlap
\* with the halo slab of the destination, no neighbour at a later step does.
C8_NoOverlapPastFirstAbsent ==
    (pc \in {"walk", "done"}) =>
        \A a \in 1..Len(shape), dir \in {LO, HI} :
            \A i, j \in i_range(dir, a, dst_extent.cart_coord, dst_extent.cart_shape) :
                LET Si == extent_at(cart_rank_to_extents_dict,
                                    [dst_extent.cart_coord EXCEPT ![a] = @ + i])
                    Sj == extent_at(cart_rank_to_extents_dict,
                                    [dst_extent.cart_coord EXCEPT ![a] = @ + j])
                IN  (i * i < j * j /\ calc_halo_intersection(dst_extent, Si, a, dir) = None)
                        => calc_halo_intersection(dst_extent, Sj, a, dir) = None

\* the corner of the halo of e on side s[k] (-1: low, 1: high) of every axis k
Corner(e, s) ==
    BoxIndices([k \in 1..Len(e.beg) |->
                   IF s[k] < 0 THEN e.beg[k] - e.halo[k][LO + 1] ELSE e.end[k]],
               [k \in 1..Len(e.beg) |->
                   IF s[k] < 0 THEN e.beg[k] ELSE e.end[k] + e.halo[k][HI + 1]])

\* the sides s for which the destination has a diagonal neighbour and a
\* non-zero halo towards it on both axes
DiagonalSides ==
    {s \in [1..2 -> {0 - 1, 1}] :
        /\ \A k \in 1..2 :
               /\ dst_extent.cart_coord[k] + s[k] >= 0
               /\ dst_extent.cart_coord[k] + s[k] < dst_extent.cart_shape[k]
               /\ dst_extent.halo[k][IF s[k] < 0 THEN LO + 1 ELSE HI + 1] > 0}

DiagonalNeighbour(s) ==
    extent_at(cart_rank_to_extents_dict,
              [k \in 1..2 |-> dst_extent.cart_coord[k] + s[k]])

\* C13 as claimed: in a 2-D plan, for a destination with a non-zero halo on
\* two axes and a diagonal neighbour on those sides, the plan holds a record
\* whose source is the diagonal neighbour and whose overlap is the corner of
\* the destination's halo lying in that neighbour's interior.
C13_DiagonalRecord ==
    (pc = "done" /\ Len(shape) = 2) =>
        \A s \in DiagonalSides :
            \E r \in PlanRecords :
                /\ r.src_extent = DiagonalNeighbour(s)
                /\ BoxIndices(r.update_extent.beg, r.update_extent.end)
                       = Corner(dst_extent, s) \cap Interior(DiagonalNeighbour(s))

\* C13 as amended: every record of a plan has the destination of the plan
\* and a source that differs from it in exactly one cartesian coordinate, so
\* no record has a diagonal neighbour as its source; in a finished 2-D plan
\* the corner of the destination's halo lying in a diagonal neighbour's
\* interior is held by the overlaps of the records of the axis neighbours.
C13_SourcesAlongOneAxis ==
    /\ (pc \in {"walk", "done"}) =>
           \A r \in PlanRecords :
               /\ r.dst_extent = dst_extent
               /\ Cardinality({k \in 1..Len(shape) :
                       r.src_extent.cart_coord[k] # dst_extent.cart_coord[k]}) = 1
    /\ (pc = "done" /\ Len(shape) = 2) =>
           \A s \in DiagonalSides :
               (Corner(dst_extent, s) \cap Interior(DiagonalNeighbour(s))) \subseteq
                   UNION {BoxIndices(r.update_extent.beg, r.update_extent.end) :
                            r \in PlanRecords}

\* a finished 2-D plan of a destination that has a diagonal neighbour whose
\* interior holds a corner of the destination's halo
C13_Witness ==
    /\ pc = "done"
    /\ Len(shape) = 2
    /\ Cardinality(PlanRecords) >= 2
    /\ \E s \in DiagonalSides :
          Corner(dst_extent, s) \cap Interior(DiagonalNeighbour(s)) # {}


(***************************************************************************)
(* MPI communicators and the collectives of the distribution build.        *)
(***************************************************************************)
\* mpi4py.MPI.COMM_NULL
COMM_NULL == [null |-> TRUE]
\* a communicator: the flat ranks (ranks of rank_comm) of its group, in the
\* order of its own ranks 0, 1, ...
Comm(group) == [group |-> group]
\* mpi4py.MPI.COMM_SELF on flat rank r
COMM_SELF(r) == Comm(<<r>>)

\* the elements of a set of integers in increasing order
RECURSIVE sorted(_)
sorted(S) ==
    IF S = {} THEN <<>>
    ELSE LET m == CHOOSE x \in S : \A y \in S : x <= y
         IN  <<m>> \o sorted(S \ {m})

\* rank_comm of a run on the ranks 0..size-1
COMM_WORLD(node_) == Comm(sorted(DOMAIN node_))

\* comm.rank of flat rank r
Get_rank(comm, r) == (CHOOSE k \in 1..Len(comm.group) : comm.group[k] = r) - 1

\* comm.Split_type(COMM_TYPE_SHARED, key=comm.rank) as seen by flat rank r:
\* the ranks of its shared-memory node, ordered by key
Split_type(node_, r) == Comm(sorted({q \in DOMAIN node_ : node_[q] = node_[r]}))

\* comm.Split(color, key=comm.rank) as seen by flat rank r
Split(color, r) ==
    IF color[r] = UNDEFINED THEN COMM_NULL
    ELSE Comm(sorted({q \in DOMAIN color : color[q] = color[r]}))

\* comm.allreduce(value, SUM) over the ranks of S
RECURSIVE allreduce(_, _)
allreduce(value, S) ==
    IF S = {} THEN 0
    ELSE LET r == CHOOSE x \in S : TRUE
         IN  value[r] + allreduce(value, S \ {r})

\* comm.Create_cart(dims, periods, reorder=True): the same group, its ranks
\* kept or reordered (here: reversed) by the implementation
Create_cart(comm, dims_, reordered) ==
    [group |-> IF reordered
               THEN [k \in 1..Len(comm.group) |-> comm.group[Len(comm.group) + 1 - k]]
               ELSE comm.group,
     dims |-> dims_]

\* cart_comm.Get_coords(rank): row-major
Get_coords(cart, rank) == unravel_index(rank, cart.dims)

\* Group.Translate_ranks(cart_comm.group, range(size), rank_comm.group)
Translate_ranks(cart) == [k \in 0..(Len(cart.group) - 1) |-> cart.group[k + 1]]

\* a bcast that leaves every member with its own object
bcast_keeps_own(obj_root, obj_own) == obj_own

\* intra_locale_comm.bcast(obj, 0): every member receives the object of
\* the root
bcast(obj_root, obj_own) == obj_root

(***************************************************************************)
(* array_split.split.calculate_num_slices_per_axis                         *)
(***************************************************************************)
RECURSIVE product_nonzero(_)
product_nonzero(s) ==
    IF s = <<>> THEN 1
    ELSE (IF s[1] = 0 THEN 1 ELSE s[1]) * product_nonzero(Tail(s))

\* fill the zero entries of d from axis k on so that their product is rest:
\* a balanced factorisation, the larger factors on the earlier axes
RECURSIVE fill_slices(_, _, _)
fill_slices(d, k, rest) ==
    IF k > Len(d) THEN d
    ELSE IF d[k] # 0 THEN fill_slices(d, k + 1, rest)
    ELSE LET m == Cardinality({j \in k..Len(d) : d[j] = 0})
             ok(x) == rest % x = 0 /\ x ^ m >= rest
             f == IF m = 1 THEN rest
                  ELSE CHOOSE x \in 1..rest :
                           ok(x) /\ \A y \in 1..(x - 1) : ~ok(y)
         IN  fill_slices([d EXCEPT ![k] = f], k + 1, rest \div f)

calculate_num_slices_per_axis(num_slices_per_axis, num_slices) ==
    fill_slices(num_slices_per_axis, 1,
                num_slices \div product_nonzero(num_slices_per_axis))

(***************************************************************************)
(* LocaleComms, CartLocaleComms, MemAllocTopology and the factories: the   *)
(* code a rank runs between two collectives.                               *)
(***************************************************************************)
ThisLocaleInfo(inter_locale_rank, rank) ==
    [inter_locale_rank |-> inter_locale_rank, rank |-> rank]

\* the test of ndims and dims that raises only when neither is given
ndims_dims_error_neither_only(ndims_, dims_) ==
    ndims_ = None /\ dims_ = None

\* CartLocaleComms.__init__ and MemAllocTopology.__init__: ValueError
ndims_dims_error(ndims_, dims_) ==
    \/ ndims_ = None /\ dims_ = None
    \/ ndims_ # None /\ dims_ # None /\ Len(dims_.some) # ndims_.some

\* dims before the zeros are filled
initial_dims(ndims_, dims_) ==
    IF dims_ = None THEN [k \in 1..ndims_.some |-> 0] ELSE dims_.some

\* is_rank_zero that counts every rank
is_rank_zero_always(intra_locale_comm, r) == 1

\* int(self._intra_locale_comm.rank == 0)
is_rank_zero(intra_locale_comm, r) ==
    IF Get_rank(intra_locale_comm, r) = 0 THEN 1 ELSE 0

\* the color of the leader split
leader_color(intra_locale_comm, r) ==
    IF Get_rank(intra_locale_comm, r) = 0 THEN 0 ELSE UNDEFINED

\* the test of a supplied inter_locale_comm that never raises
inter_locale_comm_error_never(num_locales, inter_locale_comm) == FALSE

\* LocaleComms.__init__: ValueError for a valid inter_locale_comm when
\* num_locales <= 1
inter_locale_comm_error(num_locales, inter_locale_comm) ==
    /\ num_locales <= 1
    /\ inter_locale_comm # None
    /\ inter_locale_comm # COMM_NULL

\* the test before Create_cart that lets every rank through
enters_create_cart_always(inter_locale_comm, cart_comm) == TRUE

\* CartLocaleComms.__init__: this rank calls inter_locale_comm.Create_cart
enters_create_cart(inter_locale_comm, cart_comm) ==
    inter_locale_comm # COMM_NULL /\ cart_comm = None

have_valid_cart_comm(cart_comm) == cart_comm # None /\ cart_comm # COMM_NULL

cart_coord_to_cart_rank_map(cart_comm) ==
    IF have_valid_cart_comm(cart_comm)
    THEN Dict([c \in {Get_coords(cart_comm, k) : k \in 0..(Len(cart_comm.group) - 1)} |->
                 CHOOSE k \in 0..(Len(cart_comm.group) - 1) : Get_coords(cart_comm, k) = c])
    ELSE IF cart_comm = None THEN None
    ELSE Dict(<<>>)

inter_locale_rank_to_rank_map(cart_comm) ==
    IF have_valid_cart_comm(cart_comm) THEN Dict(Translate_ranks(cart_comm)) ELSE None

this_locale_rank_info(cart_comm, r) ==
    IF have_valid_cart_comm(cart_comm)
    THEN ThisLocaleInfo(Get_rank(cart_comm, r), r)
    ELSE ThisLocaleInfo(0, 0)

\* create_distribution, slab, with every axis left to the factorisation
slab_dims_all_free(shape_, axis) == [k \in 1..Len(shape_) |-> 0]

\* create_distribution, slab: ones, and zero on the axis to partition
slab_dims(shape_, axis) == [k \in 1..Len(shape_) |-> IF k = axis THEN 0 ELSE 1]

\* create_block_distribution: dims is None
block_dims(shape_) == [k \in 1..Len(shape_) |-> 0]

(***************************************************************************)
(* Inputs of a distribution build.                                         *)
(***************************************************************************)
MaxRanks == 3       \* rank_comm has 1..MaxRanks ranks
MaxNodes == 2       \* on at most MaxNodes shared-memory nodes

\* the shared-memory node of every rank; the nodes are numbered in the order
\* of their first rank
Placements ==
    UNION {{f \in [0..(n - 1) -> 0..(MaxNodes - 1)] :
               \A r \in 0..(n - 1) :
                   f[r] = 0 \/ \E q \in 0..(r - 1) : f[q] = f[r] - 1} :
           n \in 1..MaxRanks}

\* the number of locales of a run: the nodes, or the ranks when a locale is
\* a process
NumLocales(node_, locale_type) ==
    IF locale_type = "process" THEN Cardinality(DOMAIN node_)
    ELSE Cardinality({node_[r] : r \in DOMAIN node_})

\* inter_locale_comm arguments: left out, or, for a run with one locale,
\* COMM_NULL or a valid communicator
SuppliedComms(node_, locale_type) ==
    {None} \cup (IF NumLocales(node_, locale_type) <= 1
                 THEN {COMM_NULL, COMM_WORLD(node_)}
                 ELSE {})

BuildShapes == {<<MaxShape>>, <<2, MaxShape>>}
BuildHalos == {ScalarHalo(MaxHalo)}

\* direct constructions of a topology
TopologyCalls(node_) ==
    {[entry |-> e, ndims |-> n, dims |-> d, locale_type |-> "node",
      distrib_type |-> "block", axis |-> 1, shape |-> <<>>, halo |-> None,
      inter_locale_comm |-> ic] :
        e \in {"MemAllocTopology", "CartLocaleComms"},
        n \in {None, Some(1), Some(2)},
        d \in {None, Some(<<0, 0>>)},
        ic \in SuppliedComms(node_, "node")}
    \ {c \in [entry : {"MemAllocTopology"}, ndims : {None, Some(1), Some(2)},
              dims : {None, Some(<<0, 0>>)}, locale_type : {"node"},
              distrib_type : {"block"}, axis : {1}, shape : {<<>>}, halo : {None},
              inter_locale_comm : {COMM_NULL, COMM_WORLD(node_)}] : TRUE}

\* calls of create_distribution
FactoryCalls(node_) ==
    UNION {{[entry |-> "create_distribution", ndims |-> None, dims |-> None,
             locale_type |-> lt, distrib_type |-> dt, axis |-> ax, shape |-> s,
             halo |-> h, inter_locale_comm |-> ic] :
                dt \in {"block", "slab"},
                ax \in 1..Len(s),
                h \in BuildHalos,
                ic \in {None}} :
           lt \in {"node", "process"}, s \in BuildShapes}

\* block has no axis argument; on a 1-D shape slab is block; with a process
\* as locale the nodes are never looked at, and one placement stands for all
BuildCalls(node_) ==
    TopologyCalls(node_)
        \cup {c \in FactoryCalls(node_) :
                 /\ IF Len(c.shape) = 1 THEN c.distrib_type = "block"
                    ELSE c.distrib_type = "slab" \/ c.axis = 1
                 /\ c.locale_type = "process" => \A r \in DOMAIN node_ : node_[r] = 0}

(***************************************************************************)
(* Specification of the distribution build: every rank of rank_comm makes  *)
(* the same call; a rank runs until it enters a collective, a collective   *)
(* returns on all the members of its communicator once all have entered.   *)
(***************************************************************************)
Ranks == DOMAIN node

\* the ndims, dims and intra_locale_comm the topology is constructed with
ctor_ndims == IF args.entry = "create_distribution" THEN None ELSE args.ndims

ctor_dims ==
    IF args.entry = "create_distribution"
    THEN Some(IF args.distrib_type = "slab"
              THEN slab_dims(args.shape, args.axis)
              ELSE block_dims(args.shape))
    ELSE args.dims

ctor_intra_locale_comm(r) ==
    IF args.entry = "create_distribution" /\ args.locale_type = "process"
    THEN COMM_SELF(r)
    ELSE None

InitBuild ==
    /\ node \in Placements
    /\ args \in BuildCalls(node)
    /\ proc = [r \in DOMAIN node |->
                 [pc |-> "start", intra_locale_comm |-> None, num_locales |-> 0,
                  inter_locale_comm |-> None, dims |-> <<>>, cart_comm |-> None,
                  maps |-> None, block_distrib |-> None]]
    /\ entered = [r \in DOMAIN node |-> <<>>]
    /\ op = "none"
    /\ A = None /\ B = None /\ result = None
    /\ E = None /\ idx = None
    /\ PartitionUnused
    /\ DecompositionUnused

\* rank r enters collective coll on communicator comm, which is its
\* communicator named on
Enter(r, coll, on, comm) ==
    entered' = [entered EXCEPT ![r] = Append(@, [coll |-> coll, on |-> on, comm |-> comm])]

BuildFrame == UNCHANGED <<A, B, op, args, result, E, idx, partVars, decompVars, node>>

\* the call up to the first collective
Construct(r) ==
    /\ proc[r].pc = "start"
    /\ IF ndims_dims_error(ctor_ndims, ctor_dims)
       THEN /\ proc' = [proc EXCEPT ![r].pc = "raised"]
            /\ UNCHANGED entered
       ELSE IF ctor_intra_locale_comm(r) = None
       THEN /\ proc' = [proc EXCEPT ![r].pc = "Split_type"]
            /\ Enter(r, "Split_type", "rank_comm", COMM_WORLD(node))
       ELSE /\ proc' = [proc EXCEPT ![r].intra_locale_comm = ctor_intra_locale_comm(r),
                                    ![r].pc = "have_intra_locale_comm"]
            /\ UNCHANGED entered
    /\ BuildFrame

Split_type_returns ==
    /\ \A r \in Ranks : proc[r].pc = "Split_type"
    /\ proc' = [r \in Ranks |->
                  [proc[r] EXCEPT !.intra_locale_comm = Split_type(node, r),
                                  !.pc = "have_intra_locale_comm"]]
    /\ UNCHANGED entered
    /\ BuildFrame

EnterAllreduce(r) ==
    /\ proc[r].pc = "have_intra_locale_comm"
    /\ proc' = [proc EXCEPT ![r].pc = "allreduce"]
    /\ Enter(r, "allreduce", "rank_comm", COMM_WORLD(node))
    /\ BuildFrame

allreduce_returns ==
    /\ \A r \in Ranks : proc[r].pc = "allreduce"
    /\ LET num_locales ==
               allreduce([r \in Ranks |-> is_rank_zero(proc[r].intra_locale_comm, r)], Ranks)
       IN  proc' = [r \in Ranks |->
                      [proc[r] EXCEPT !.num_locales = num_locales,
                                      !.pc = "have_num_locales"]]
    /\ UNCHANGED entered
    /\ BuildFrame

\* LocaleComms.__init__ after the allreduce
AfterAllreduce(r) ==
    /\ proc[r].pc = "have_num_locales"
    /\ IF proc[r].num_locales > 1
       THEN IF args.inter_locale_comm = None
            THEN /\ proc' = [proc EXCEPT ![r].pc = "Split"]
                 /\ Enter(r, "Split", "rank_comm", COMM_WORLD(node))
            ELSE /\ proc' = [proc EXCEPT ![r].inter_locale_comm = args.inter_locale_comm,
                                         ![r].pc = "have_locale_comms"]
                 /\ UNCHANGED entered
       ELSE IF inter_locale_comm_error(proc[r].num_locales, args.inter_locale_comm)
       THEN /\ proc' = [proc EXCEPT ![r].pc = "raised"]
            /\ UNCHANGED entered
       ELSE /\ proc' = [proc EXCEPT ![r].pc = "have_locale_comms"]
            /\ UNCHANGED entered
    /\ BuildFrame

Split_returns ==
    /\ \A r \in Ranks : proc[r].pc = "Split"
    /\ LET color == [r \in Ranks |-> leader_color(proc[r].intra_locale_comm, r)]
       IN  proc' = [r \in Ranks |->
                      [proc[r] EXCEPT !.inter_locale_comm = Split(color, r),
                                      !.pc = "have_locale_comms"]]
    /\ UNCHANGED entered
    /\ BuildFrame

\* the constructor of the topology after its LocaleComms
AfterLocaleComms(r) ==
    /\ proc[r].pc = "have_locale_comms"
    /\ LET dims_ == calculate_num_slices_per_axis(initial_dims(ctor_ndims, ctor_dims),
                                                  proc[r].num_locales)
       IN  IF proc[r].num_locales > 1
           THEN IF enters_create_cart(proc[r].inter_locale_comm, None)
                THEN /\ proc' = [proc EXCEPT ![r].dims = dims_, ![r].pc = "Create_cart"]
                     /\ Enter(r, "Create_cart", "inter_locale_comm", proc[r].inter_locale_comm)
                ELSE /\ proc' = [proc EXCEPT ![r].dims = dims_,
                                             ![r].cart_comm = COMM_NULL,
                                             ![r].pc = "have_cart_comm"]
                     /\ UNCHANGED entered
           ELSE /\ proc' = [proc EXCEPT ![r].dims = dims_, ![r].pc = "have_cart_comm"]
                /\ UNCHANGED entered
    /\ BuildFrame

Create_cart_returns ==
    \E l \in Ranks, reordered \in BOOLEAN :
        LET comm == proc[l].inter_locale_comm
        IN  /\ proc[l].pc = "Create_cart"
            /\ comm # COMM_NULL
            /\ \A k \in 1..Len(comm.group) :
                   /\ proc[comm.group[k]].pc = "Create_cart"
                   /\ proc[comm.group[k]].inter_locale_comm = comm
            /\ proc' = [r \in Ranks |->
                          IF \E k \in 1..Len(comm.group) : comm.group[k] = r
                          THEN [proc[r] EXCEPT
                                   !.cart_comm = Create_cart(comm, proc[r].dims, reordered),
                                   !.pc = "have_cart_comm"]
                          ELSE proc[r]]
            /\ UNCHANGED entered
            /\ BuildFrame

\* a topology constructed directly is complete
Constructed(r) ==
    /\ proc[r].pc = "have_cart_comm"
    /\ args.entry # "create_distribution"
    /\ proc' = [proc EXCEPT ![r].pc = "done"]
    /\ UNCHANGED entered
    /\ BuildFrame

\* create_block_distribution: the three maps of this rank, into the bcast
EnterBcast(r) ==
    /\ proc[r].pc = "have_cart_comm"
    /\ args.entry = "create_distribution"
    /\ proc' = [proc EXCEPT
                   ![r].maps = [cart_coord_to_cart_rank |->
                                    cart_coord_to_cart_rank_map(proc[r].cart_comm),
                                cart_rank_to_rank |->
                                    inter_locale_rank_to_rank_map(proc[r].cart_comm),
                                this_locale |->
                                    this_locale_rank_info(proc[r].cart_comm, r)],
                   ![r].pc = "bcast"]
    /\ Enter(r, "bcast", "intra_locale_comm", proc[r].intra_locale_comm)
    /\ BuildFrame

bcast_returns ==
    \E l \in Ranks :
        LET comm == proc[l].intra_locale_comm
        IN  /\ proc[l].pc = "bcast"
            /\ \A k \in 1..Len(comm.group) :
                   /\ proc[comm.group[k]].pc = "bcast"
                   /\ proc[comm.group[k]].intra_locale_comm = comm
            /\ proc' = [r \in Ranks |->
                          IF \E k \in 1..Len(comm.group) : comm.group[k] = r
                          THEN [proc[r] EXCEPT
                                   !.maps = bcast(proc[comm.group[1]].maps, proc[r].maps),
                                   !.pc = "have_maps"]
                          ELSE proc[r]]
            /\ UNCHANGED entered
            /\ BuildFrame

\* create_block_distribution: the BlockPartition, and return
Return(r) ==
    /\ proc[r].pc = "have_maps"
    /\ proc' = [proc EXCEPT
                   ![r].block_distrib =
                       BlockPartition(
                           GlobaleExtent([k \in 1..Len(args.shape) |-> 0], args.shape, None),
                           proc[r].dims,
                           proc[r].maps.cart_coord_to_cart_rank,
                           args.halo,
                           proc[r].maps.cart_rank_to_rank),
                   ![r].pc = "done"]
    /\ UNCHANGED entered
    /\ BuildFrame

NextBuild ==
    \/ \E r \in Ranks : Construct(r)
    \/ Split_type_returns
    \/ \E r \in Ranks : EnterAllreduce(r)
    \/ allreduce_returns
    \/ \E r \in Ranks : AfterAllreduce(r)
    \/ Split_returns
    \/ \E r \in Ranks : AfterLocaleComms(r)
    \/ Create_cart_returns
    \/ \E r \in Ranks : Constructed(r)
    \/ \E r \in Ranks : EnterBcast(r)
    \/ bcast_returns
    \/ \E r \in Ranks : Return(r)

SpecBuild == InitBuild /\ [][NextBuild]_vars

\* every rank is a process of its own and keeps running
FairSpecBuild == SpecBuild /\ WF_vars(NextBuild)

(***************************************************************************)
(* Properties of the distribution build (SpecBuild, FairSpecBuild).        *)
(***************************************************************************)
\* the order of the collectives of a build
CollectiveOrder == <<"Split_type", "allreduce", "Split", "Create_cart", "bcast">>
OrderIndex(coll) == CHOOSE k \in 1..Len(CollectiveOrder) : CollectiveOrder[k] = coll

IsMember(comm, r) == \E k \in 1..Len(comm.group) : comm.group[k] = r
IsPrefix(s, t) == Len(s) <= Len(t) /\ SubSeq(t, 1, Len(s)) = s

\* the names of the collectives rank r has entered on the communicator of
\* log entry e, in order
EnteredOn(r, e) ==
    LET Same(x) == x.on = e.on /\ x.comm = e.comm
        log == SelectSeq(entered[r], Same)
    IN  [k \in 1..Len(log) |-> log[k].coll]

\* the leaders: the ranks with intra-locale rank 0
Leaders ==
    {q \in Ranks : proc[q].intra_locale_comm # None
                     /\ proc[q].intra_locale_comm.group[1] = q}

\* every rank has returned from the call, or raised
AllReturned == \A r \in Ranks : proc[r].pc \in {"done", "raised"}

\* every rank has entered its collectives in the order Split_type, allreduce
\* and Split on rank_comm, Create_cart on inter_locale_comm (leaders only),
\* bcast on intra_locale_comm, and the members of a communicator have
\* entered the same sequence of collectives on it, as far as they have got
CollectivesInOrder ==
    \A r \in Ranks :
        /\ \A i, j \in 1..Len(entered[r]) :
               i < j => OrderIndex(entered[r][i].coll) < OrderIndex(entered[r][j].coll)
        /\ \A i \in 1..Len(entered[r]) :
               LET e == entered[r][i]
               IN  /\ e.comm # COMM_NULL
                   /\ e.comm # None
                   /\ IsMember(e.comm, r)
                   /\ e.coll \in {"Split_type", "allreduce", "Split"} =>
                          e.on = "rank_comm" /\ e.comm = COMM_WORLD(node)
                   /\ e.coll = "Create_cart" =>
                          /\ e.on = "inter_locale_comm"
                          /\ r \in Leaders
                          /\ {e.comm.group[k] : k \in 1..Len(e.comm.group)} = Leaders
                   /\ e.coll = "bcast" =>
                          e.on = "intra_locale_comm" /\ e.comm = proc[r].intra_locale_comm
                   /\ \A q \in Ranks :
                          IsMember(e.comm, q) =>
                              /\ IsPrefix(EnteredOn(r, e), EnteredOn(q, e))
                                     \/ IsPrefix(EnteredOn(q, e), EnteredOn(r, e))
                              /\ AllReturned => EnteredOn(r, e) = EnteredOn(q, e)

\* C14: in a build in which all ranks pass the same arguments every rank
\* enters the collectives in the order Split_type, allreduce, Split (all on
\* rank_comm), Create_cart (inter_locale_comm, leaders only), bcast
\* (intra_locale_comm); all members of a communicator enter the same
\* sequence of collectives on it; and every rank's build completes.  The
\* log entered only grows, so the log of the finished build holds the order
\* in which every rank entered.
C14_CollectivesOrderedAndComplete ==
    <>(AllReturned /\ CollectivesInOrder)

\* a finished build of three ranks on two nodes in which a leader went
\* through all five collectives
C14_Witness ==
    /\ Cardinality(Ranks) = 3
    /\ \A r \in Ranks : proc[r].pc = "done"
    /\ Cardinality(Leaders) = 2
    /\ \E r \in Ranks :
          [k \in 1..Len(entered[r]) |-> entered[r][k].coll] = CollectiveOrder

\* the leader of the locale of rank r
Leader(r) == proc[r].intra_locale_comm.group[1]

\* C15: once create_block_distribution is past its bcast on two ranks, they
\* hold the same cart_coord_to_cart_rank and cart_rank_to_rank maps, which
\* are the maps the leaders computed, the this_locale of a rank is that of
\* the leader of its locale, and the locale extents of the BlockPartition
\* are the same on every rank.
C15_SameTopologyOnEveryRank ==
    \A r, q \in Ranks :
        (/\ args.entry = "create_distribution"
         /\ proc[r].pc \in {"have_maps", "done"}
         /\ proc[q].pc \in {"have_maps", "done"}) =>
            /\ proc[r].maps.cart_coord_to_cart_rank = proc[q].maps.cart_coord_to_cart_rank
            /\ proc[r].maps.cart_rank_to_rank = proc[q].maps.cart_rank_to_rank
            /\ proc[r].maps.cart_coord_to_cart_rank
                   = cart_coord_to_cart_rank_map(proc[Leader(r)].cart_comm)
            /\ proc[r].maps.cart_rank_to_rank
                   = inter_locale_rank_to_rank_map(proc[Leader(r)].cart_comm)
            /\ proc[r].maps.this_locale
                   = this_locale_rank_info(proc[Leader(r)].cart_comm, Leader(r))
            /\ (proc[r].pc = "done" /\ proc[q].pc = "done") =>
                   proc[r].block_distrib.locale_extents
                       = proc[q].block_distrib.locale_extents

\* every rank has returned, one of them is not a leader, and the cartesian
\* communicator has reordered the leaders
C15_Witness ==
    /\ \A r \in Ranks : proc[r].pc = "done"
    /\ args.entry = "create_distribution"
    /\ Ranks \ Leaders # {}
    /\ Cardinality(Leaders) = 2
    /\ \E l \in Leaders :
          proc[l].cart_comm.group # proc[l].inter_locale_comm.group

\* the positions of a rank after its allreduce has returned
PastAllreduce ==
    {"have_num_locales", "Split", "have_locale_comms", "Create_cart",
     "have_cart_comm", "bcast", "have_maps", "done"}
\* the positions of a rank after its LocaleComms is constructed
PastLocaleComms ==
    {"have_locale_comms", "Create_cart", "have_cart_comm", "bcast", "have_maps", "done"}

\* C16: with no inter_locale_comm supplied, num_locales is the same on every
\* rank and is the number of ranks with intra-locale rank 0; when it is > 1
\* exactly those ranks hold an inter_locale_comm, of num_locales members,
\* and every other rank holds COMM_NULL; when it is <= 1 no rank has an
\* inter_locale_comm and no rank enters the leader split.
C16_NumLocalesAndInterLocaleComm ==
    (args.inter_locale_comm = None) =>
        \A r \in Ranks :
            /\ proc[r].pc \in PastAllreduce =>
                   proc[r].num_locales = Cardinality(Leaders)
            /\ proc[r].pc \in PastLocaleComms =>
                   IF proc[r].num_locales > 1
                   THEN IF r \in Leaders
                        THEN /\ proc[r].inter_locale_comm # None
                             /\ proc[r].inter_locale_comm # COMM_NULL
                             /\ Len(proc[r].inter_locale_comm.group) = proc[r].num_locales
                             /\ {proc[r].inter_locale_comm.group[k] :
                                    k \in 1..proc[r].num_locales} = Leaders
                        ELSE proc[r].inter_locale_comm = COMM_NULL
                   ELSE /\ proc[r].inter_locale_comm = None
                        /\ \A i \in 1..Len(entered[r]) : entered[r][i].coll # "Split"

\* three ranks on two nodes: the leaders hold a communicator of two, the
\* third rank COMM_NULL
C16_Witness ==
    /\ args.inter_locale_comm = None
    /\ Cardinality(Ranks) = 3
    /\ \A r \in Ranks : proc[r].pc \in PastLocaleComms
    /\ \E r \in Ranks : proc[r].num_locales = 2 /\ proc[r].inter_locale_comm = COMM_NULL
    /\ \E r \in Ranks : proc[r].inter_locale_comm = Comm(sorted(Leaders))

\* C17: constructing MemAllocTopology or CartLocaleComms with neither ndims
\* nor dims, or with both and len(dims) # ndims, raises on every rank before
\* any collective is entered and leaves nothing of a topology.
C17_InvalidDimsRaisesEagerly ==
    (/\ args.entry \in {"MemAllocTopology", "CartLocaleComms"}
     /\ \/ args.ndims = None /\ args.dims = None
        \/ args.ndims # None /\ args.dims # None /\ Len(args.dims.some) # args.ndims.some) =>
        \A r \in Ranks :
            /\ proc[r].pc \in {"start", "raised"}
            /\ entered[r] = <<>>
            /\ proc[r].intra_locale_comm = None
            /\ proc[r].inter_locale_comm = None
            /\ proc[r].cart_comm = None
            /\ proc[r].num_locales = 0
            /\ proc[r].dims = <<>>

\* every one of three ranks has raised for dims longer than ndims
C17_Witness ==
    /\ Cardinality(Ranks) = 3
    /\ args.ndims = Some(1)
    /\ args.dims = Some(<<0, 0>>)
    /\ \A r \in Ranks : proc[r].pc = "raised" /\ entered[r] = <<>>

\* C18: a LocaleComms given an inter_locale_comm that is neither None nor
\* COMM_NULL raises when num_locales <= 1; given None or COMM_NULL it is
\* constructed and its inter_locale_comm is left None.
C18_ValidInterLocaleCommRejected ==
    \A r \in Ranks :
        (/\ proc[r].pc \in PastLocaleComms \cup {"raised"}
         /\ entered[r] # <<>>
         /\ proc[r].num_locales <= 1) =>
            IF args.inter_locale_comm # None /\ args.inter_locale_comm # COMM_NULL
            THEN proc[r].pc = "raised"
            ELSE proc[r].pc # "raised" /\ proc[r].inter_locale_comm = None

\* two ranks of one node have raised for a valid inter_locale_comm
C18_Witness ==
    /\ Cardinality(Ranks) = 2
    /\ args.inter_locale_comm = COMM_WORLD(node)
    /\ \A r \in Ranks : proc[r].pc = "raised" /\ proc[r].num_locales = 1

\* C19: create_distribution with distrib_type slab resolves dims to
\* num_locales on the axis and 1 on every other axis, and the interior of
\* every locale extent spans the globale extent on every other axis.
C19_SlabDims ==
    \A r \in Ranks :
        (/\ args.entry = "create_distribution"
         /\ args.distrib_type = "slab"
         /\ proc[r].pc \in {"Create_cart", "have_cart_comm", "bcast", "have_maps", "done"}) =>
            /\ \A k \in 1..Len(args.shape) :
                   proc[r].dims[k] = (IF k = args.axis THEN Cardinality(Leaders) ELSE 1)
            /\ proc[r].pc = "done" =>
                   LET L == proc[r].block_distrib.locale_extents
                   IN  /\ DOMAIN L = 0..(Cardinality(Leaders) - 1)
                       /\ \A i \in DOMAIN L :
                              \A k \in 1..Len(args.shape) :
                                  k # args.axis =>
                                      L[i].beg[k] = 0 /\ L[i].end[k] = args.shape[k]

\* a 2-D shape cut into three slabs along its second axis
C19_Witness ==
    /\ args.entry = "create_distribution"
    /\ args.distrib_type = "slab"
    /\ Len(args.shape) = 2
    /\ args.axis = 2
    /\ \A r \in Ranks : proc[r].pc = "done" /\ proc[r].dims = <<1, 3>>

\* C20: when num_locales is 1 the BlockPartition has one locale extent, its
\* interior the globale interior, its halo zero on every axis and side
\* whatever halo was requested, its cart_coord all zeros and its
\* inter_locale_rank 0; no rank creates or holds a cartesian communicator;
\* and the walk of the halo planner from that extent has no neighbour to
\* visit, so the halo plan is empty.
C20_SingleLocale ==
    \A r \in Ranks :
        (/\ args.entry = "create_distribution"
         /\ proc[r].pc = "done"
         /\ proc[r].num_locales = 1) =>
            LET D == proc[r].block_distrib
                L == D.locale_extents
            IN  /\ DOMAIN L = {0}
                /\ L[0].beg = [k \in 1..Len(args.shape) |-> 0]
                /\ L[0].end = args.shape
                /\ L[0].beg = D.globale_extent.beg
                /\ L[0].end = D.globale_extent.end
                /\ \A k \in 1..Len(args.shape) : L[0].halo[k] = <<0, 0>>
                /\ \A k \in 1..Len(args.shape) : L[0].cart_coord[k] = 0
                /\ L[0].inter_locale_rank = 0
                /\ \A q \in Ranks :
                       /\ proc[q].cart_comm = None
                       /\ \A i \in 1..Len(entered[q]) : entered[q][i].coll # "Create_cart"
                /\ \A a \in 1..Len(args.shape), dir \in {LO, HI} :
                       i_range(dir, a, L[0].cart_coord, L[0].cart_shape) = {}

\* three ranks of one node have built a 2-D single-locale distribution with
\* the largest halo requested
C20_Witness ==
    /\ Cardinality(Ranks) = 3
    /\ args.entry = "create_distribution"
    /\ Len(args.shape) = 2
    /\ args.halo = ScalarHalo(MaxHalo)
    /\ \A r \in Ranks : proc[r].pc = "done" /\ proc[r].num_locales = 1

(***************************************************************************)
(* Distribution, ClonedDistribution, SingleLocaleDistribution              *)
(***************************************************************************)
\* an exception raised by a call, in place of its value
TypeError == [raised |-> "TypeError"]
IsRaised(x) == "raised" \in DOMAIN x

AttributeError == [raised |-> "AttributeError"]

\* hasattr(self, "deep_copy") of an extent: IndexingExtent, HaloIndexingExtent
\* and GlobaleExtent define no deep_copy
has_deep_copy(self) == FALSE

LocaleExtent(rank, inter_locale_rank, globale, start, stop, halo_) ==
    [beg |-> start, end |-> stop,
     halo |-> HaloSubExtent(globale, start, stop, halo_).halo,
     rank |-> rank, inter_locale_rank |-> inter_locale_rank]

\* the defaults of the globale_extent_type and locale_extent_type arguments
\* of Distribution.__init__
default_globale_extent_type == "LocaleExtent"
default_locale_extent_type == "GlobaleExtent"

\* Distribution.create_locale_extent: the call
\* locale_extent_type(rank=, inter_locale_rank=, globale_extent=, start=,
\* stop=, halo=).  LocaleExtent.__init__ takes these keywords;
\* GlobaleExtent has the __init__ of HaloIndexingExtent (slice, start, stop,
\* halo), which takes no rank, and CartLocaleExtent.__init__ needs cart_coord
\* and cart_shape as well.
Distribution_create_locale_extent(locale_extent_type, ilr_to_rank, inter_locale_rank, locale_extent, globale, halo_) ==
    IF locale_extent_type = "LocaleExtent"
    THEN LocaleExtent(get_rank(ilr_to_rank, inter_locale_rank), inter_locale_rank,
                      globale, locale_extent.beg, locale_extent.end, halo_)
    ELSE TypeError

\* Distribution.__init__; locale_extents is the list given, indexed from 0
Distribution(ge, locale_extents, halo_, globale_extent_type, locale_extent_type, ilr_to_rank) ==
    LET globale == create_globale_extent(ge, ScalarHalo(0))
        created == [i \in DOMAIN locale_extents |->
                       Distribution_create_locale_extent(locale_extent_type, ilr_to_rank, i,
                                                         locale_extents[i], globale, halo_)]
    IN  IF \E i \in DOMAIN created : IsRaised(created[i])
        THEN TypeError
        ELSE [globale_extent |-> globale,
              halo |-> convert_halo_to_array_form(halo_, ndim(globale)),
              num_locales |-> Cardinality(DOMAIN locale_extents),
              inter_locale_rank_to_rank |-> ilr_to_rank,
              locale_extents |-> created]

\* the list [globale_extent.deep_copy() for i in range(num_locales)] is
\* built before Distribution.__init__ is called
ClonedDistribution(ge, num_locales, halo_) ==
    IF num_locales >= 1 /\ ~has_deep_copy(ge)
    THEN AttributeError
    ELSE Distribution(ge, [i \in 0..(num_locales - 1) |-> ge], halo_,
                      default_globale_extent_type, default_locale_extent_type, None)

SingleLocaleDistribution(ge, num_locales, inter_locale_rank, halo_) ==
    LET globale == create_globale_extent(ge, ScalarHalo(0))
        sidx == start_n(globale)
        empty == HaloIndexingExtent(sidx, sidx, [k \in 1..Len(sidx) |-> <<0, 0>>])
        locale_extents ==
            [i \in 0..(num_locales - 1) |->
                IF i = inter_locale_rank
                THEN [empty EXCEPT !.beg = start_n(globale), !.end = stop_n(globale)]
                ELSE empty]
    IN  Distribution(globale, locale_extents, halo_,
                     default_globale_extent_type, default_locale_extent_type, None)

(***************************************************************************)
(* Specification of the cloned and single-locale distributions: Init draws *)
(* the arguments, an action constructs the distribution.                   *)
(***************************************************************************)
\* globale extents as a caller builds them, with a halo of their own or none
GlobaleExtents(n) ==
    {GlobaleExtent([k \in 1..n |-> o], [k \in 1..n |-> o + s[k]], h) :
        s \in Shapes(n), o \in 0..1, h \in {None, ScalarHalo(1)}}

InitDistribution ==
    /\ \E n \in NdimSet :
          /\ globale_extent \in GlobaleExtents(n)
          /\ halo \in {ScalarHalo(h) : h \in 0..MaxHalo} \cup {MatrixHalo(m) : m \in Halos(n)}
    /\ \E num_locales \in 1..MaxLocales, inter_locale_rank \in 0..(MaxLocales - 1) :
          /\ inter_locale_rank < num_locales
          /\ args = [num_locales |-> num_locales, inter_locale_rank |-> inter_locale_rank]
    /\ dims = None
    /\ cart_coord_to_cart_rank = None
    /\ inter_locale_rank_to_rank = None
    /\ distribution = None
    /\ op = "none"
    /\ A = None /\ B = None /\ result = None
    /\ E = None /\ idx = None
    /\ DecompositionUnused
    /\ BuildUnused

DistributionFrame ==
    UNCHANGED <<A, B, args, result, E, idx, globale_extent, dims, cart_coord_to_cart_rank,
                halo, inter_locale_rank_to_rank, decompVars, buildVars>>

NewClonedDistribution ==
    /\ op = "none"
    /\ op' = "ClonedDistribution"
    /\ distribution' = ClonedDistribution(globale_extent, args.num_locales, halo)
    /\ DistributionFrame

NewSingleLocaleDistribution ==
    /\ op = "none"
    /\ op' = "SingleLocaleDistribution"
    /\ distribution' = SingleLocaleDistribution(globale_extent, args.num_locales,
                                                args.inter_locale_rank, halo)
    /\ DistributionFrame

NextDistribution ==
    \/ NewClonedDistribution
    \/ NewSingleLocaleDistribution

SpecDistribution == InitDistribution /\ [][NextDistribution]_vars

(***************************************************************************)
(* Properties of the cloned and single-locale distributions                *)
(* (SpecDistribution).                                                     *)
(***************************************************************************)
\* C21: ClonedDistribution(globale_extent, num_locales) with num_locales >= 1
\* succeeds and has num_locales locale extents, each with the interior of
\* the globale extent.
C21_ClonedHoldsGlobaleEverywhere ==
    (op = "ClonedDistribution") =>
        /\ ~IsRaised(distribution)
        /\ DOMAIN distribution.locale_extents = 0..(args.num_locales - 1)
        /\ \A r \in DOMAIN distribution.locale_extents :
               /\ distribution.locale_extents[r].beg = globale_extent.beg
               /\ distribution.locale_extents[r].end = globale_extent.end

\* C22: SingleLocaleDistribution(globale_extent, num_locales,
\* inter_locale_rank = k) succeeds and has num_locales locale extents, of
\* which extent k has the interior of the globale extent and every other is
\* empty with start_n = stop_n = globale.start_n.
C22_SingleLocaleHoldsGlobale ==
    (op = "SingleLocaleDistribution") =>
        /\ ~IsRaised(distribution)
        /\ DOMAIN distribution.locale_extents = 0..(args.num_locales - 1)
        /\ \A r \in DOMAIN distribution.locale_extents :
               LET L == distribution.locale_extents[r]
               IN  IF r = args.inter_locale_rank
                   THEN L.beg = globale_extent.beg /\ L.end = globale_extent.end
                   ELSE L.beg = globale_extent.beg /\ L.end = globale_extent.beg

(***************************************************************************)
(* Equality of locale extents                                              *)
(***************************************************************************)
\* IndexingExtent.__eq__, for extents of one dimension
IndexingExtent_eq(self, other) ==
    /\ \A k \in DOMAIN self.beg : self.beg[k] = other.beg[k]
    /\ \A k \in DOMAIN self.end : self.end[k] = other.end[k]

\* HaloSubExtent.__eq__: HaloSubExtent and HaloIndexingExtent define no
\* __eq__, the one of IndexingExtent is inherited
HaloSubExtent_eq(self, other) == IndexingExtent_eq(self, other)

\* LocaleExtent.__eq__
LocaleExtent_eq(self, other) ==
    /\ HaloSubExtent_eq(self, other)
    /\ self.rank = other.rank
    /\ self.inter_locale_rank = other.inter_locale_rank

(***************************************************************************)
(* Specification of the equality of locale extents: Init draws two locale  *)
(* extents of one globale extent, the action compares them.                *)
(***************************************************************************)
\* the locale extents of ranks 0 and 1 in the globale extent [0, MaxShape)
\* (1-D) or [0, 1) x [0, 1) (2-D), with a scalar halo request
LocaleExtents(n) ==
    LET top == IF n = 1 THEN MaxShape ELSE 1
        globale == GlobaleExtent([k \in 1..n |-> 0], [k \in 1..n |-> top], None)
    IN  {LocaleExtent(r, i, globale, b, e, ScalarHalo(h)) :
            r \in 0..1, i \in 0..1, h \in 0..MaxHalo,
            b \in Vectors(n, 0..top),
            e \in {v \in Vectors(n, 0..top) : \A k \in 1..n : v[k] >= 1}}

InitLocaleExtent ==
    /\ \E n \in NdimSet :
          /\ A \in LocaleExtents(n)
          /\ B \in LocaleExtents(n)
    /\ op = "none"
    /\ args = None /\ result = None
    /\ E = None /\ idx = None
    /\ PartitionUnused
    /\ DecompositionUnused
    /\ BuildUnused

DoLocaleExtentEq ==
    /\ op = "none"
    /\ op' = "LocaleExtent.__eq__"
    /\ result' = Some(LocaleExtent_eq(A, B))
    /\ UNCHANGED <<A, B, args, E, idx, partVars, decompVars, buildVars>>

NextLocaleExtent == DoLocaleExtentEq

SpecLocaleExtent == InitLocaleExtent /\ [][NextLocaleExtent]_vars

(***************************************************************************)
(* Properties of the equality of locale extents (SpecLocaleExtent).        *)
(***************************************************************************)
\* C23: two locale extents compare equal if and only if they have the same
\* start and stop on every axis, the same halo on every axis and side, the
\* same rank and the same inter_locale_rank; two locale extents that differ
\* only in their halo are not equal.
C23_EqualIffSameBoxHaloRanks ==
    (op = "LocaleExtent.__eq__") =>
        (result.some <=>
            /\ A.beg = B.beg
            /\ A.end = B.end
            /\ A.halo = B.halo
            /\ A.rank = B.rank
            /\ A.inter_locale_rank = B.inter_locale_rank)

(***************************************************************************)
(* Buckets of the halo-update plan (SpecDecomposition).                    *)
(***************************************************************************)
\* C24: an update record computed for axis a and side s is appended to
\* bucket updates[a][s] and to no other bucket: the append leaves
\* updates[a'][s'] unchanged for every (a', s') other than (a, s).
C24_AppendLeavesOtherBuckets ==
    [][(pc = "walk" /\ updates' # updates) =>
          /\ Len(updates'[loop_a][loop_dir + 1]) = Len(updates[loop_a][loop_dir + 1]) + 1
          /\ \A k \in 1..Len(updates), d \in {LO, HI} :
                 (k # loop_a \/ d # loop_dir) => updates'[k][d + 1] = updates[k][d + 1]]_vars

(***************************************************************************)
(* Order of the leftovers of calc_intersection_split (SpecExtent).         *)
(***************************************************************************)
\* the remainders of X around Y (Y within X) from axis a on, in the order:
\* axes increasing, low remainder before high remainder, empty ones skipped.
\* The remainders of axis a span Y on the axes before a and X on the axes
\* after a.
RECURSIVE Remainders(_, _, _)
Remainders(X, Y, a) ==
    IF a > Len(X.beg) THEN <<>>
    ELSE
        LET b  == [k \in 1..Len(X.beg) |-> IF k < a THEN Y.beg[k] ELSE X.beg[k]]
            e  == [k \in 1..Len(X.beg) |-> IF k < a THEN Y.end[k] ELSE X.end[k]]
            lo == IF Y.beg[a] > X.beg[a]
                  THEN <<IndexingExtent(b, [e EXCEPT ![a] = Y.beg[a]])>>
                  ELSE <<>>
            hi == IF Y.end[a] < X.end[a]
                  THEN <<IndexingExtent([b EXCEPT ![a] = Y.end[a]], e)>>
                  ELSE <<>>
        IN  lo \o hi \o Remainders(X, Y, a + 1)

\* C25: when A.calc_intersection(B) is present, calc_intersection_split
\* emits the leftovers axis by axis in increasing order, the low remainder
\* of an axis before its high remainder, skipping empty remainders; at most
\* 2 * ndim leftovers are emitted, and the one box still held after the last
\* axis is the intersection, which is not emitted.
C25_LeftoversInAxisOrder ==
    (op = "calc_intersection_split" /\ result.intersection # None) =>
        LET I == IndexingExtent(
                     [k \in 1..ndim(A) |-> Max(A.beg[k], B.beg[k])],
                     [k \in 1..ndim(A) |-> Min(A.end[k], B.end[k])])
        IN  /\ ~result.raised
            /\ result.leftovers = Remainders(A, I, 1)
            /\ Len(result.leftovers) <= 2 * ndim(A)
            /\ result.q = <<I>>
            /\ \A k \in 1..Len(result.leftovers) : result.leftovers[k] # I

\* the worked example scaled to the coordinates modelled: A = [0,3) x [0,3),
\* B = [1,2) x [1,2) with the four leftovers [0,1) x [0,3), [2,3) x [0,3),
\* [1,2) x [0,1), [1,2) x [2,3) in that order
C25_Witness ==
    /\ op = "calc_intersection_split"
    /\ A = IndexingExtent(<<0, 0>>, <<3, 3>>)
    /\ B = IndexingExtent(<<1, 1>>, <<2, 2>>)
    /\ result.intersection = B
    /\ result.leftovers = <<IndexingExtent(<<0, 0>>, <<1, 3>>),
                            IndexingExtent(<<2, 0>>, <<3, 3>>),
                            IndexingExtent(<<1, 0>>, <<2, 1>>),
                            IndexingExtent(<<1, 2>>, <<2, 3>>)>>

(***************************************************************************)
(* The fields of the locale extents of a block partition (SpecPartition).  *)
(***************************************************************************)
\* C26: for every inter-locale rank r of a BlockPartition, locale_extents[r]
\* has inter_locale_rank (its cart_rank) r, cart_coord the one coordinate c
\* with cart_coord_to_cart_rank[c] = r, cart_shape dims, the interior of the
\* tile of the block partition at c, and rank inter_locale_rank_to_rank[r]
\* when a rank map was given, UNDEFINED otherwise.
C26_LocaleExtentFields ==
    (op = "BlockPartition") =>
        LET L == distribution.locale_extents
            G == distribution.globale_extent
            c2r == distribution.cart_coord_to_cart_rank
        IN  /\ DOMAIN L = 0..(product(dims) - 1)
            /\ \A r \in DOMAIN L :
                   /\ L[r].inter_locale_rank = r
                   /\ Cardinality({c \in DOMAIN c2r : c2r[c] = r}) = 1
                   /\ c2r[L[r].cart_coord] = r
                   /\ L[r].cart_shape = dims
                   /\ \A k \in 1..Len(dims) :
                          LET size == G.end[k] - G.beg[k]
                              c == L[r].cart_coord[k]
                          IN  /\ L[r].beg[k] = G.beg[k] + c * (size \div dims[k])
                                                   + Min(c, size % dims[k])
                              /\ L[r].end[k] = G.beg[k] + (c + 1) * (size \div dims[k])
                                                   + Min(c + 1, size % dims[k])
                   /\ L[r].rank = IF inter_locale_rank_to_rank # None
                                  THEN inter_locale_rank_to_rank.dict[r]
                                  ELSE UNDEFINED

\* a 2-D partition over several locales with a reordered coordinate map and
\* a rank map under which the last locale is not flat rank num_locales - 1
C26_Witness ==
    /\ op = "BlockPartition"
    /\ ndim(globale_extent) = 2
    /\ product(dims) > 2
    /\ cart_coord_to_cart_rank.dict[<<0, 0>>] # 0
    /\ inter_locale_rank_to_rank # None
    /\ LET last == distribution.locale_extents[product(dims) - 1]
       IN  /\ last.rank # last.inter_locale_rank
           /\ last.cart_coord = <<0, 0>>

(***************************************************************************)
(* The function calc_intersection_split of mpi_array/indexing.py           *)
(***************************************************************************)
\* a factory of update records, as the caller supplies it
update_factory(dst_extent_, src_extent_, intersection) ==
    <<[dst_extent |-> dst_extent_, src_extent |-> src_extent_, update_extent |-> intersection]>>

\* the leftovers kept when the intersection is absent: the copies made from
\* the leftovers of the method
absent_leftovers_keeps_copies(dst_extent_, copies) == copies

\* leftovers = [dst_extent, ] when the intersection is absent
absent_leftovers(dst_extent_, copies) == <<dst_extent_>>

\* calc_intersection_split(dst_extent, src_extent, update_factory,
\* update_dst_halo) of the module, returning [leftovers, updates]
indexing_calc_intersection_split(dst_extent_, src_extent_, update_dst_halo) ==
    LET dst_ie == IF update_dst_halo
                  THEN IndexingExtent(start_h(dst_extent_), stop_h(dst_extent_))
                  ELSE IndexingExtent(start_n(dst_extent_), stop_n(dst_extent_))
        halo_ == IF update_dst_halo
                 THEN convert_halo_to_array_form(ScalarHalo(0), ndim(dst_extent_))
                 ELSE dst_extent_.halo
        src_ie == IndexingExtent(start_n(src_extent_), stop_n(src_extent_))
        r == calc_intersection_split(dst_ie, src_ie)
        copies == [k \in 1..Len(r.leftovers) |->
                      [dst_extent_ EXCEPT !.beg = r.leftovers[k].beg,
                                          !.end = r.leftovers[k].end,
                                          !.halo = halo_]]
    IN  IF r.intersection # None
        THEN [leftovers |-> copies,
              updates |-> update_factory(dst_extent_, src_extent_, r.intersection)]
        ELSE [leftovers |-> absent_leftovers(dst_extent_, copies), updates |-> <<>>]

(***************************************************************************)
(* Specification of the function calc_intersection_split: Init draws the   *)
(* destination, the source and update_dst_halo, the action calls it.       *)
(***************************************************************************)
\* destinations: every 1-D extent, the 2-D extents that start at <<1, 1>>
\* and are not empty, with a halo per axis
DstExtents(n) ==
    {HaloIndexingExtent(x.beg, x.end, h) :
        x \in {y \in Extents(n) : n = 1 \/ \A k \in 1..n : y.beg[k] = 1 /\ y.end[k] > 1},
        h \in AxisHalos(n)}

\* sources: every extent, without a halo or with the widest
SrcExtents(n) ==
    {HaloIndexingExtent(x.beg, x.end, [k \in 1..n |-> <<w, w>>]) :
        x \in Extents(n), w \in {0, MaxHalo}}

InitSplitUpdate ==
    /\ \E n \in NdimSet :
          /\ A \in DstExtents(n)
          /\ B \in SrcExtents(n)
    /\ args \in {[update_dst_halo |-> b] : b \in BOOLEAN}
    /\ op = "none"
    /\ result = None
    /\ E = None /\ idx = None
    /\ PartitionUnused
    /\ DecompositionUnused
    /\ BuildUnused

DoIndexingCalcIntersectionSplit ==
    /\ op = "none"
    /\ op' = "indexing.calc_intersection_split"
    /\ result' = indexing_calc_intersection_split(A, B, args.update_dst_halo)
    /\ UNCHANGED <<A, B, args, E, idx, partVars, decompVars, buildVars>>

NextSplitUpdate == DoIndexingCalcIntersectionSplit

SpecSplitUpdate == InitSplitUpdate /\ [][NextSplitUpdate]_vars

(***************************************************************************)
(* Properties of the function calc_intersection_split (SpecSplitUpdate).   *)
(***************************************************************************)
\* the index vectors of the box [b, e), halo elements below 0 included
Box(b, e) ==
    {p \in Vectors(Len(b), (0 - MaxHalo)..(MaxCoord + MaxHalo)) :
        \A k \in 1..Len(b) : b[k] <= p[k] /\ p[k] < e[k]}

\* C27: for a destination and a source that do not intersect the function
\* calc_intersection_split returns leftovers = [dst] and no updates; when
\* they intersect the leftovers are copies of dst whose interiors tile the
\* destination region (with halo if update_dst_halo, interior otherwise)
\* minus the intersection with the interior of the source, and updates is
\* update_factory(dst, src, intersection).
C27_LeftoversAndUpdates ==
    (op = "indexing.calc_intersection_split") =>
        LET lo == IF args.update_dst_halo
                  THEN [k \in 1..ndim(A) |-> A.beg[k] - A.halo[k][1]] ELSE A.beg
            hi == IF args.update_dst_halo
                  THEN [k \in 1..ndim(A) |-> A.end[k] + A.halo[k][2]] ELSE A.end
            ilo == [k \in 1..ndim(A) |-> Max(lo[k], B.beg[k])]
            ihi == [k \in 1..ndim(A) |-> Min(hi[k], B.end[k])]
            L == result.leftovers
        IN  IF Box(lo, hi) \cap Box(B.beg, B.end) = {}
            THEN result.leftovers = <<A>> /\ result.updates = <<>>
            ELSE /\ \A k \in 1..Len(L) :
                        /\ L[k].halo = (IF args.update_dst_halo
                                        THEN [a \in 1..ndim(A) |-> <<0, 0>>]
                                        ELSE A.halo)
                        /\ Box(L[k].beg, L[k].end) # {}
                 /\ \A k, m \in 1..Len(L) :
                        k # m => Box(L[k].beg, L[k].end) \cap Box(L[m].beg, L[m].end) = {}
                 /\ UNION {Box(L[k].beg, L[k].end) : k \in 1..Len(L)}
                        = Box(lo, hi) \ Box(B.beg, B.end)
                 /\ result.updates =
                        <<[dst_extent |-> A, src_extent |-> B,
                           update_extent |-> IndexingExtent(ilo, ihi)]>>

\* a destination with a halo next to a source it does not intersect
C27_WitnessAbsent ==
    /\ op = "indexing.calc_intersection_split"
    /\ A.halo[1][1] > 0
    /\ B.beg[1] >= A.end[1] + A.halo[1][2]
    /\ B.beg[1] < B.end[1]
    /\ result.updates = <<>>

\* a 2-D destination whose halo region a source reaches into, with three or
\* more leftovers around the intersection
C27_Witness ==
    /\ op = "indexing.calc_intersection_split"
    /\ ndim(A) = 2
    /\ args.update_dst_halo
    /\ A.halo[1][1] > 0
    /\ Len(result.leftovers) >= 3
    /\ Len(result.updates) = 1
    /\ result.updates[1].update_extent.beg[1] < A.beg[1]

(***************************************************************************)
(* Decomposition: construction, recalculate and the shape and halo setters *)
(***************************************************************************)
ValueError == [raised |-> "ValueError"]

\* convert_halo_to_array_form(halo, ndim) raises ValueError: the halo is
\* given per axis and does not have ndim rows
halo_form_error(halo_, n) ==
    /\ halo_ # None
    /\ halo_.form \in {"axis", "matrix"}
    /\ Len(halo_.value) # n

\* SharedMemInfo(comm, shared_mem_comm): the shared-memory communicator of
\* every member of comm and the number of those that are rank 0 of theirs.
\* shared_mem_comm_of is None, or the communicator every member passes.
SharedMemInfo(comm, shared_mem_comm_of, node_) ==
    LET members == {comm.group[k] : k \in 1..Len(comm.group)}
        node_of == [q \in members |-> node_[q]]
        shared_mem_comm ==
            [q \in members |->
                IF shared_mem_comm_of = None THEN Split_type(node_of, q)
                ELSE shared_mem_comm_of.dict[q]]
    IN  [shared_mem_comm |-> shared_mem_comm,
         num_shared_mem_nodes |->
             allreduce([q \in members |-> is_rank_zero(shared_mem_comm[q], q)], members)]

\* MemAllocTopology(ndims=ndims_, rank_comm=rank_comm_, shared_mem_comm=...)
\* as flat rank r has it
MemAllocTopology(ndims_, rank_comm_, shared_mem_comm_of, node_, r, reordered) ==
    LET rank_comm == IF rank_comm_ = None THEN COMM_WORLD(node_) ELSE rank_comm_
        info == SharedMemInfo(rank_comm, shared_mem_comm_of, node_)
        dims_ == calculate_num_slices_per_axis([k \in 1..ndims_ |-> 0],
                                               info.num_shared_mem_nodes)
        members == {rank_comm.group[k] : k \in 1..Len(rank_comm.group)}
        color == [q \in members |-> leader_color(info.shared_mem_comm[q], q)]
        splt_comm == Split(color, r)
    IN  [dims |-> dims_,
         rank_comm |-> rank_comm,
         shared_mem_comm |-> info.shared_mem_comm[r],
         num_shared_mem_nodes |-> info.num_shared_mem_nodes,
         cart_comm |-> IF info.num_shared_mem_nodes > 1
                       THEN IF splt_comm # COMM_NULL
                            THEN Create_cart(splt_comm, dims_, reordered)
                            ELSE COMM_NULL
                       ELSE None]

\* HalosUpdate.initialise: the walk along axis a to side dir from step i on
RECURSIVE walk_axis(_, _, _, _, _, _)
walk_axis(dst, rank_to_extents, a, dir, i, upd) ==
    IF i \notin i_range(dir, a, dst.cart_coord, dst.cart_shape) THEN upd
    ELSE LET src == extent_at(rank_to_extents, [dst.cart_coord EXCEPT ![a] = @ + i])
             halo_extent == calc_halo_intersection(dst, src, a, dir)
         IN  IF halo_extent = None THEN upd
             ELSE walk_axis(dst, rank_to_extents, a, dir, next_i(dir, i),
                            updates_extend(upd, a, dir,
                                split_extent_for_max_elements(
                                    SingleExtentUpdate(dst, src, halo_extent))))

\* HalosUpdate.initialise: the axes from a on, for side dir
RECURSIVE walk_axes(_, _, _, _, _)
walk_axes(dst, rank_to_extents, a, dir, upd) ==
    IF a > ndim(dst) THEN upd
    ELSE walk_axes(dst, rank_to_extents, a + 1, dir,
                   walk_axis(dst, rank_to_extents, a, dir, first_i(dir), upd))

\* HalosUpdate(dst_rank, rank_to_extents_dict): the buckets of the plan
HalosUpdate(dst_rank_, rank_to_extents) ==
    LET dst == rank_to_extents[dst_rank_]
    IN  walk_axes(dst, rank_to_extents, 1, HI,
                  walk_axes(dst, rank_to_extents, 1, LO, empty_updates(ndim(dst))))

\* Decomposition.recalculate(new_shape, new_halo) on rank 0 of an object
\* with topology topology_ and a shape of old_ndim dimensions (0: no shape
\* yet); gives the fields of the object afterwards and the exception raised
recalculate(self, old_ndim, new_shape, new_halo, node_, reordered) ==
    LET topology ==
            IF self.mem_node_topology = None
            THEN MemAllocTopology(Len(new_shape), None, None, node_, 0, reordered)
            ELSE IF old_ndim # 0 /\ old_ndim # Len(new_shape)
            THEN MemAllocTopology(Len(new_shape), None, None, node_, 0, reordered)
            ELSE self.mem_node_topology
    IN  IF halo_form_error(new_halo, Len(new_shape))
        THEN [self EXCEPT !.shape = new_shape, !.halo = new_halo,
                          !.mem_node_topology = topology, !.raised = ValueError]
        ELSE
            LET halo_ == MatrixHalo(convert_halo_to_array_form(new_halo, Len(new_shape)))
                extents == recalculate_extents(new_shape, halo_, topology.dims)
            IN  IF have_valid_cart_comm(topology.cart_comm)
                THEN [shape |-> new_shape, halo |-> halo_, mem_node_topology |-> topology,
                      cart_rank_to_extents_dict |-> Dict(extents),
                      halo_updates_dict |->
                          Dict([r \in DOMAIN extents |-> HalosUpdate(r, extents)]),
                      raised |-> None]
                ELSE [shape |-> new_shape, halo |-> halo_, mem_node_topology |-> topology,
                      cart_rank_to_extents_dict |-> None, halo_updates_dict |-> None,
                      raised |-> None]

(***************************************************************************)
(* Specification of the life of a Decomposition on rank 0: Init is the     *)
(* object as constructed, an action assigns its shape or its halo.         *)
(***************************************************************************)
LifeShapes == {<<2>>, <<MaxShape>>, <<2, MaxShape>>}
\* halos for n dimensions: None, a scalar, a matrix
LifeHalos(n) == {None, ScalarHalo(1), MatrixHalo([k \in 1..n |-> <<0, MaxHalo>>])}

\* the mem_node_topology argument: left out, a topology in which every
\* process is a memory node of its own, or a topology over rank 0 alone
ConstructorTopologies(n, node_) ==
    {None,
     MemAllocTopology(n, None, Dict([q \in DOMAIN node_ |-> COMM_SELF(q)]), node_, 0, FALSE),
     MemAllocTopology(n, COMM_SELF(0), None, node_, 0, FALSE)}

\* the object in the variables
Self ==
    [shape |-> shape, halo |-> halo, mem_node_topology |-> mem_node_topology,
     cart_rank_to_extents_dict |-> cart_rank_to_extents_dict,
     halo_updates_dict |-> halo_updates_dict, raised |-> None]

InitLife ==
    /\ node \in Placements
    /\ \E s \in LifeShapes :
          \E h \in LifeHalos(Len(s)), t \in ConstructorTopologies(Len(s), node),
             reordered \in BOOLEAN :
              LET new == recalculate([shape |-> None, halo |-> h, mem_node_topology |-> t,
                                      cart_rank_to_extents_dict |-> None,
                                      halo_updates_dict |-> None, raised |-> None],
                                     0, s, h, node, reordered)
              IN  /\ shape = new.shape
                  /\ halo = new.halo
                  /\ mem_node_topology = new.mem_node_topology
                  /\ cart_rank_to_extents_dict = new.cart_rank_to_extents_dict
                  /\ halo_updates_dict = new.halo_updates_dict
                  /\ args = [shape |-> s, halo |-> h]
    /\ op = "Decomposition"
    /\ result = None
    /\ A = None /\ B = None /\ E = None /\ idx = None
    /\ globale_extent = None /\ dims = None /\ cart_coord_to_cart_rank = None
    /\ inter_locale_rank_to_rank = None /\ distribution = None
    /\ dst_rank = None /\ updates = None
    /\ loop_dir = None /\ loop_a = None /\ loop_i = None /\ pc = "unused"
    /\ proc = None /\ entered = None

LifeFrame ==
    UNCHANGED <<A, B, E, idx, globale_extent, dims, cart_coord_to_cart_rank,
                inter_locale_rank_to_rank, distribution, dst_rank, updates,
                loop_dir, loop_a, loop_i, pc, buildVars>>

Assign(new) ==
    /\ shape' = new.shape
    /\ halo' = new.halo
    /\ mem_node_topology' = new.mem_node_topology
    /\ cart_rank_to_extents_dict' = new.cart_rank_to_extents_dict
    /\ halo_updates_dict' = new.halo_updates_dict
    /\ result' = new.raised

\* decomposition.shape = new_shape
SetShape ==
    \E new_shape \in LifeShapes, reordered \in BOOLEAN :
        /\ Assign(recalculate(Self, Len(shape), new_shape, halo, node, reordered))
        /\ op' = "shape"
        /\ args' = [args EXCEPT !.shape = new_shape]
        /\ LifeFrame

\* decomposition.halo = new_halo
SetHalo ==
    \E new_halo \in LifeHalos(Len(shape)), reordered \in BOOLEAN :
        /\ Assign(recalculate(Self, Len(shape), shape,
                              IF new_halo = None THEN ScalarHalo(0) ELSE new_halo,
                              node, reordered))
        /\ op' = "halo"
        /\ args' = [args EXCEPT !.halo = new_halo]
        /\ LifeFrame

NextLife ==
    \/ SetShape
    \/ SetHalo

SpecLife == InitLife /\ [][NextLife]_vars

\* the halo last assigned, None meaning zero, in ndim x 2 form
last_assigned_halo ==
    convert_halo_to_array_form(IF args.halo = None THEN ScalarHalo(0) ELSE args.halo,
                               Len(shape))

\* the extents table and the plans are those of the current shape and halo
TablesCurrent ==
    /\ cart_rank_to_extents_dict # None
    /\ halo_updates_dict # None
    /\ LET extents == cart_rank_to_extents_dict.dict
           plans == halo_updates_dict.dict
       IN  /\ DOMAIN extents = 0..(product(mem_node_topology.dims) - 1)
           /\ extents = recalculate_extents(shape, halo, mem_node_topology.dims)
           /\ DOMAIN plans = DOMAIN extents
           /\ \A r \in DOMAIN plans :
                 \A a \in 1..Len(plans[r]), d \in {LO, HI} :
                    \A k \in 1..Len(plans[r][a][d + 1]) :
                        /\ plans[r][a][d + 1][k].dst_extent = extents[r]
                        /\ \E q \in DOMAIN extents :
                               plans[r][a][d + 1][k].src_extent = extents[q]

LifeConsistent ==
    /\ shape = args.shape
    /\ halo.form = "matrix"
    /\ Len(halo.value) = Len(shape)
    /\ halo.value = last_assigned_halo
    /\ have_valid_cart_comm(mem_node_topology.cart_comm) => TablesCurrent

\* C28: after any sequence of shape and halo assignments the Decomposition
\* is consistent with the last assigned values only: its shape is the last
\* assigned shape, its halo the last assigned halo in ndim x 2 form (None
\* meaning zero), its extents table holds one extent per cartesian rank
\* computed from the current shape and halo, every plan refers only to
\* extents of the current table; assigning shape leaves halo unchanged and
\* assigning halo leaves shape unchanged.
C28_ConsistentWithLastAssigned ==
    /\ [](op \in {"shape", "halo"} => LifeConsistent)
    /\ [][/\ (op' = "shape" /\ shape' # shape) => halo' = halo
          /\ (op' = "halo" /\ halo' # halo) => shape' = shape]_vars

\* an assignment that returns leaves the object consistent
AssignedIsConsistent == (op \in {"shape", "halo"} /\ result = None) => LifeConsistent

\* C29: assigning a shape of another number of dimensions rebuilds the
\* topology for the new number of dimensions over the rank communicator and
\* the shared-memory communicator the topology had before the assignment.
C29_TopologyKeepsCommunicators ==
    [][(op' = "shape" /\ Len(shape') # Len(shape)) =>
          /\ Len(mem_node_topology'.dims) = Len(shape')
          /\ mem_node_topology'.rank_comm = mem_node_topology.rank_comm
          /\ mem_node_topology'.shared_mem_comm = mem_node_topology.shared_mem_comm]_vars

\* with the default topology the rebuilt one has the same communicators
DefaultTopologyKept ==
    [][(op' = "shape" /\ Len(shape') # Len(shape)
          /\ mem_node_topology.rank_comm = COMM_WORLD(node)
          /\ mem_node_topology.shared_mem_comm = Split_type(node, 0)) =>
          /\ Len(mem_node_topology'.dims) = Len(shape')
          /\ mem_node_topology'.rank_comm = mem_node_topology.rank_comm
          /\ mem_node_topology'.shared_mem_comm = mem_node_topology.shared_mem_comm]_vars

(***************************************************************************)
(* HaloIndexingExtent: conversion of an extent between the frames.         *)
(* A numpy array is its shape and its elements in row order.               *)
(***************************************************************************)
\* numpy.array(v, dtype="int64") of a sequence of integers
np_array(v) == [shape |-> <<Len(v)>>, data |-> v]

\* numpy.array((a,), dtype="int64") of the 1-tuple holding the array a
np_array_of_tuple(a) == [shape |-> <<1>> \o a.shape, data |-> a.data]

\* the extent with its start and stop as the arrays _beg and _end
as_arrays(ext) == [ext EXCEPT !.beg = np_array(@), !.end = np_array(@)]

\* len(self._beg)
array_ndim(ext) == ext.beg.shape[1]

\* HaloIndexingExtent.globale_to_locale_extent_h(gext): the copy returned
globale_to_locale_extent_h(self, gext) ==
    [gext EXCEPT !.beg = np_array(globale_to_locale_h(self, gext.beg.data)),
                 !.end = np_array(globale_to_locale_h(self, gext.end.data))]

\* HaloIndexingExtent.locale_to_globale_extent_h(lext): the copy returned;
\* the assignments end in a comma, so start_n and stop_n are set from 1-tuples
locale_to_globale_extent_h(self, lext) ==
    [lext EXCEPT
        !.beg = np_array_of_tuple(np_array(locale_to_globale_h(self, lext.beg.data))),
        !.end = np_array_of_tuple(np_array(locale_to_globale_h(self, lext.end.data)))]

\* halo extents to convert with: the shape of E plays no part
ConvertingExtents(n) ==
    {HaloIndexingExtent(b, [k \in 1..n |-> b[k] + 1], h) :
        b \in Vectors(n, Coords), h \in AxisHalos(n)}

\* extents to convert: with and without a halo
ConvertedExtents(n) ==
    Extents(n) \cup
    {HaloIndexingExtent(x.beg, x.end, [k \in 1..n |-> <<1, 1>>]) : x \in Extents(n)}

InitFrameExtent ==
    /\ \E n \in NdimSet :
          /\ E \in ConvertingExtents(n)
          /\ A \in ConvertedExtents(n)
    /\ op = "none"
    /\ args = None
    /\ result = None
    /\ B = None
    /\ idx = None
    /\ PartitionUnused
    /\ DecompositionUnused
    /\ BuildUnused

\* E.globale_to_locale_extent_h(A) and the way back
DoGlobaleToLocaleExtentH ==
    /\ op = "none"
    /\ op' = "globale_to_locale_extent_h"
    /\ result' = [to |-> globale_to_locale_extent_h(E, as_arrays(A)),
                  back |-> locale_to_globale_extent_h(E,
                               globale_to_locale_extent_h(E, as_arrays(A))),
                  arg |-> as_arrays(A)]
    /\ UNCHANGED <<A, B, args, E, idx, partVars, buildVars, decompVars>>

\* E.locale_to_globale_extent_h(A)
DoLocaleToGlobaleExtentH ==
    /\ op = "none"
    /\ op' = "locale_to_globale_extent_h"
    /\ result' = [to |-> locale_to_globale_extent_h(E, as_arrays(A)),
                  arg |-> as_arrays(A)]
    /\ UNCHANGED <<A, B, args, E, idx, partVars, buildVars, decompVars>>

NextFrameExtent ==
    \/ DoGlobaleToLocaleExtentH
    \/ DoLocaleToGlobaleExtentH

SpecFrameExtent == InitFrameExtent /\ [][NextFrameExtent]_vars

\* C30: E.locale_to_globale_extent_h(E.globale_to_locale_extent_h(X)) is an
\* extent of the ndim of X with the start and stop of X, and each conversion
\* translates the start and stop of X by exactly E.start_h (subtracted from
\* globale to locale, added from locale to globale) and leaves X unchanged.
C30_ExtentRoundTrip ==
    LET X == as_arrays(A)
        minus(v) == np_array([k \in DOMAIN v |-> v[k] - start_h(E)[k]])
        plus(v) == np_array([k \in DOMAIN v |-> v[k] + start_h(E)[k]])
    IN  /\ op = "globale_to_locale_extent_h" =>
              /\ result.to.beg = minus(A.beg)
              /\ result.to.end = minus(A.end)
              /\ array_ndim(result.back) = ndim(A)
              /\ result.back.beg = X.beg
              /\ result.back.end = X.end
              /\ result.arg = X
        /\ op = "locale_to_globale_extent_h" =>
              /\ result.to.beg = plus(A.beg)
              /\ result.to.end = plus(A.end)
              /\ result.arg = X

\* the conversion from globale to locale alone does what the claim says
GlobaleToLocaleExtentTranslates ==
    op = "globale_to_locale_extent_h" =>
        /\ result.to.beg = np_array(globale_to_locale_h(E, A.beg))
        /\ result.to.end = np_array(globale_to_locale_h(E, A.end))
        /\ array_ndim(result.to) = ndim(A)
        /\ result.arg = as_arrays(A)

====
